---- MODULE Spec2Model ----
(***************************************************************************)
(* Model of the Futaba NAGP1250 VFD driver (src/futaba/NAGP1250.py).       *)
(*                                                                         *)
(* The driver is single-threaded and synchronous: every public method runs *)
(* to completion (returns or raises) before the next one starts.  A method *)
(* call is therefore one action; what it did is left in the observation    *)
(* variables below until the caller goes on (Return).                      *)
(*                                                                         *)
(*   Spec      the driver object: construction, then any sequence of       *)
(*             public command calls                                        *)
(*   SpecPack  the bitmap packer: a caller's bitmap, pack_bitmap on it,    *)
(*             then display_realtime_image on the packed bytes             *)
(*   SpecNew   construction with any arguments, failing ones included      *)
(*   SpecWindows  the window commands, and the user windows the display    *)
(*             holds after the frames it was sent                          *)
(*   SpecSend  one send_bytes call step by step: the transport write, then *)
(*             the polls of the SBUSY pin (SpecSendFair: the same steps,   *)
(*             taken as long as the call has not ended)                    *)
(*   SpecDraw  draw_graphic_lines on a caller's pixel buffer               *)
(***************************************************************************)
EXTENDS Integers, Sequences, FiniteSets, TLC

VARIABLES
    width,      \* self.width
    height,     \* self.height
    pc,         \* where the caller is: "idle" | "done"  (SpecPack: "bitmap" | "packed";
                \* SpecNew: "new"; SpecDraw: "canvas" | "drawn"; SpecSend: the phase of
                \* send_bytes, "Idle" | "Sending" | "WaitingBusy")
    call,       \* the method call just made: [op, args, data, clear]
    raised,     \* "none", or the exception the call ended with
    frames,     \* the `data` arguments send_bytes accepted during the call, in order
    wire,       \* the byte strings handed to spi.write during the call, in order
    bitmap,     \* the caller's pixel buffer, bitmap[y+1][x+1] (rows of cells)
    packed,     \* result of pack_bitmap: [raised, out]
    before,     \* the pixel buffer as it was when the drawing call was made
    windows,    \* the user windows the display holds (followed under SpecWindows)
    pin_sbusy,  \* self.pin_sbusy: "None" or "Pin"
    elapsed,    \* microseconds since `start` of _wait_for_sbusy
    wpc,        \* where _wait_for_sbusy is: "" | "poll" | "sleep"
    polled,     \* the values pin_sbusy.value() returned: first and latest, <<>> if none
    warned,     \* "WARNING: SBUSY timeout" was printed
    phases,     \* the phases send_bytes has been in, in order
    device,     \* the display's settings as the frames sent leave them: [mode, window]
                \* (followed under SpecWindows and SpecBase)
    pin_reset,  \* self.pin_reset: "None" or "Pin"
    events      \* what __init__ did to the pins and the transport, in order

\* the variables of the busy wait
busyvars == <<pin_sbusy, elapsed, wpc, polled, warned, phases>>

\* the variables of the display's settings and of construction
devvars == <<device, pin_reset, events>>

vars == <<width, height, pc, call, raised, frames, wire, bitmap, packed, before, windows,
          pin_sbusy, elapsed, wpc, polled, warned, phases, device, pin_reset, events>>

-----------------------------------------------------------------------------
(* Bounds of the model *)

\* how far beyond each end of a validated range the sampled arguments go
Margin == 1
\* longest text given to write_text
MaxTextLen == 2
\* widest bitmap whose pixels are enumerated one by one
MaxW == 2
\* tallest such bitmap, in 8-row bands
MaxBands == 2
\* number of cells that differ from the bitmap's background
MaxOn == 1

\* the values at and around both ends of a validated range lo..hi
Edge(lo, hi) == ((lo - Margin)..lo) \cup (hi..(hi + Margin))

\* Python's 0/1 for a condition
B2I(b) == IF b THEN 1 ELSE 0

\* bit j of a non-negative integer
Bit(v, j) == (v \div (2 ^ j)) % 2

-----------------------------------------------------------------------------
(* REVERSE_TABLE, lines 49-63 *)

RECURSIVE ReverseLoop(_, _, _)
\* n more rounds of: result = (result << 1) | (original_byte & 1); original_byte >>= 1
ReverseLoop(result, original_byte, n) ==
    IF n = 0 THEN result
    ELSE ReverseLoop(result * 2 + (original_byte % 2), original_byte \div 2, n - 1)

\* a table that shifts only seven times
REVERSE_TABLE_SevenRounds == [bit_i \in 0..255 |-> ReverseLoop(0, bit_i, 7)]

REVERSE_TABLE == [bit_i \in 0..255 |-> ReverseLoop(0, bit_i, 8)]

-----------------------------------------------------------------------------
(* The state a method works on: what it has done so far.  A method is an   *)
(* operator from this record (and its arguments) to the record afterwards. *)

Fresh == [raised |-> "none", frames |-> <<>>, wire |-> <<>>,
          width |-> width, height |-> height]

Raise(st, exc) == [st EXCEPT !.raised = exc]

Ok(st) == st.raised = "none"

\* the loop body of send_bytes with the two bytes of a 16-bit item swapped
EncodeItem_HighFirst(item) ==
    IF item <= 255
    THEN <<REVERSE_TABLE[item]>>
    ELSE <<REVERSE_TABLE[(item \div 256) % 256], REVERSE_TABLE[item % 256]>>

\* what the loop body of send_bytes appends to `out` for one item in 0..65535
EncodeItem(item) ==
    IF item <= 255
    THEN <<REVERSE_TABLE[item]>>
    ELSE LET high == (item \div 256) % 256
             low  == item % 256
         IN <<REVERSE_TABLE[low], REVERSE_TABLE[high]>>

RECURSIVE EncodeRange(_, _, _)
\* `out` after the `for item in data` loop of send_bytes over the items
\* lo..hi: the items' bytes in order (split in halves to keep the nesting shallow)
EncodeRange(data, lo, hi) ==
    IF lo > hi THEN <<>>
    ELSE IF lo = hi THEN EncodeItem(data[lo])
    ELSE LET mid == (lo + hi) \div 2
         IN EncodeRange(data, lo, mid) \o EncodeRange(data, mid + 1, hi)

Encode(data) == EncodeRange(data, 1, Len(data))

\* send_bytes that writes what it has encoded before it raises
send_bytes_WritesBeforeRaise(st, data) ==
    IF \E i \in 1..Len(data) : data[i] < 0 \/ data[i] > 65535
    THEN LET bad == CHOOSE i \in 1..Len(data) :
                        /\ (data[i] < 0 \/ data[i] > 65535)
                        /\ \A j \in 1..(i - 1) : ~(data[j] < 0 \/ data[j] > 65535)
         IN [st EXCEPT !.raised = "ValueError",
                       !.wire = Append(@, Encode(SubSeq(data, 1, bad - 1)))]
    ELSE [st EXCEPT !.frames = Append(@, data),
                    !.wire = Append(@, Encode(data))]

\* send_bytes: the range check of an item raises inside the loop, before
\* spi.write; otherwise the whole of `out` goes out in one spi.write
send_bytes(st, data) ==
    IF \E i \in 1..Len(data) : data[i] < 0 \/ data[i] > 65535
    THEN Raise(st, "ValueError")
    ELSE [st EXCEPT !.frames = Append(@, data),
                    !.wire = Append(@, Encode(data))]

-----------------------------------------------------------------------------
(* Command methods.  Frames are written in decimal; the source's hex is in *)
(* the comment of each.                                                    *)

\* initialize: [0x1B, 0x40]
initialize(st) == send_bytes(st, <<27, 64>>)

\* set_font: [0x1B, 0x52, font_id]
set_font(st, font_id) ==
    IF ~(0 <= font_id /\ font_id <= 13) THEN Raise(st, "ValueError")
    ELSE send_bytes(st, <<27, 82, font_id>>)

\* set_character_code: [0x1B, 0x74, code]
set_character_code(st, code) ==
    IF ~(0 <= code /\ code <= 13) THEN Raise(st, "ValueError")
    ELSE send_bytes(st, <<27, 116, code>>)

\* set_cursor_blink: [0x1F, 0x43, mode]
set_cursor_blink(st, mode) ==
    IF ~(0 <= mode /\ mode <= 1) THEN Raise(st, "ValueError")
    ELSE send_bytes(st, <<31, 67, mode>>)

\* set_write_logic: [0x1F, 0x77, mode]
set_write_logic(st, mode) ==
    IF ~(0 <= mode /\ mode <= 3) THEN Raise(st, "ValueError")
    ELSE send_bytes(st, <<31, 119, mode>>)

\* set_horizontal_scroll_speed: [0x1F, 0x73, speed]
set_horizontal_scroll_speed(st, speed) ==
    IF ~(0 <= speed /\ speed <= 31) THEN Raise(st, "ValueError")
    ELSE send_bytes(st, <<31, 115, speed>>)

\* set_luminance: [0x1F, 0x58, luminance]
set_luminance(st, luminance) ==
    IF ~(1 <= luminance /\ luminance <= 8) THEN Raise(st, "ValueError")
    ELSE send_bytes(st, <<31, 88, luminance>>)

\* set_overwrite_mode: [0x1F, 0x01]
set_overwrite_mode(st) == send_bytes(st, <<31, 1>>)

\* set_vertical_scroll: [0x1F, 0x02]
set_vertical_scroll(st) == send_bytes(st, <<31, 2>>)

\* set_horizontal_scroll: [0x1F, 0x03]
set_horizontal_scroll(st) == send_bytes(st, <<31, 3>>)

set_mode_md1(st) == set_overwrite_mode(st)

set_mode_md2(st) == set_vertical_scroll(st)

set_mode_md3(st) == set_horizontal_scroll(st)

\* set_font_magnification: [0x1F, 0x28, 0x67, 0x40, h, v]
set_font_magnification(st, h, v) ==
    IF ~(1 <= h /\ h <= 4) THEN Raise(st, "ValueError")
    ELSE IF ~(1 <= v /\ v <= 4) THEN Raise(st, "ValueError")
    ELSE send_bytes(st, <<31, 40, 103, 64, h, v>>)

\* set_character_spacing: [0x1F, 0x28, 0x67, 0x03, mode]
set_character_spacing(st, mode) ==
    IF ~(0 <= mode /\ mode <= 3) THEN Raise(st, "ValueError")
    ELSE send_bytes(st, <<31, 40, 103, 3, mode>>)

\* set_cursor_position whose x limit follows the recorded width
set_cursor_position_ByWidth(st, x, y) ==
    IF ~(0 <= x /\ x <= (IF st.width = 256 THEN 280 ELSE 255)) THEN Raise(st, "ValueError")
    ELSE IF ~(0 <= y /\ y <= 3) THEN Raise(st, "ValueError")
    ELSE send_bytes(st, <<31, 36, x % 256, (x \div 256) % 256, y % 256, (y \div 256) % 256>>)

\* set_cursor_position: [0x1F, 0x24, x & 0xFF, (x >> 8) & 0xFF, y & 0xFF, (y >> 8) & 0xFF]
set_cursor_position(st, x, y) ==
    IF ~(0 <= x /\ x <= 255) THEN Raise(st, "ValueError")
    ELSE IF ~(0 <= y /\ y <= 3) THEN Raise(st, "ValueError")
    ELSE send_bytes(st, <<31, 36, x % 256, (x \div 256) % 256, y % 256, (y \div 256) % 256>>)

\* set_reverse_display: [0x1F, 0x72, mode]
set_reverse_display(st, mode) ==
    IF ~(0 <= mode /\ mode <= 1) THEN Raise(st, "ValueError")
    ELSE send_bytes(st, <<31, 114, mode>>)

\* do_select_window: [0x1F, 0x28, 0x77, 0x01, window_num]
do_select_window(st, window_num) ==
    IF ~(0 <= window_num /\ window_num <= 4) THEN Raise(st, "ValueError")
    ELSE send_bytes(st, <<31, 40, 119, 1, window_num>>)

\* clear_window that selects the base window again when it has cleared
clear_window_RestoresBase(st, window_num) ==
    IF ~(0 <= window_num /\ window_num <= 4) THEN Raise(st, "ValueError")
    ELSE LET s1 == do_select_window(st, window_num)
             s2 == IF Ok(s1) THEN send_bytes(s1, <<12>>) ELSE s1
         IN IF Ok(s2) THEN do_select_window(s2, 0) ELSE s2

\* clear_window: select the window, then [0x0C]
clear_window(st, window_num) ==
    IF ~(0 <= window_num /\ window_num <= 4) THEN Raise(st, "ValueError")
    ELSE LET s1 == do_select_window(st, window_num)
         IN IF Ok(s1) THEN send_bytes(s1, <<12>>) ELSE s1

\* do_blink_display that does not check the repetition count
do_blink_display_AnyRepetition(st, pattern, normal_time, blink_time, repetition) ==
    IF ~(0 <= pattern /\ pattern <= 2) THEN Raise(st, "ValueError")
    ELSE IF ~(1 <= normal_time /\ normal_time <= 255) THEN Raise(st, "ValueError")
    ELSE IF ~(1 <= blink_time /\ blink_time <= 255) THEN Raise(st, "ValueError")
    ELSE send_bytes(st, <<31, 40, 97, 17, pattern, normal_time, blink_time, repetition>>)

\* do_blink_display: [0x1F, 0x28, 0x61, 0x11, pattern, normal_time, blink_time, repetition]
do_blink_display(st, pattern, normal_time, blink_time, repetition) ==
    IF ~(0 <= pattern /\ pattern <= 2) THEN Raise(st, "ValueError")
    ELSE IF ~(1 <= normal_time /\ normal_time <= 255) THEN Raise(st, "ValueError")
    ELSE IF ~(1 <= blink_time /\ blink_time <= 255) THEN Raise(st, "ValueError")
    ELSE IF ~(1 <= repetition /\ repetition <= 255) THEN Raise(st, "ValueError")
    ELSE send_bytes(st, <<31, 40, 97, 17, pattern, normal_time, blink_time, repetition>>)

\* do_home: [0x0B]
do_home(st) == send_bytes(st, <<11>>)

\* do_line_feed: [0x0A]
do_line_feed(st) == send_bytes(st, <<10>>)

\* do_backspace: [0x08]
do_backspace(st) == send_bytes(st, <<8>>)

\* do_horizontal_tab: [0x09]
do_horizontal_tab(st) == send_bytes(st, <<9>>)

\* do_carriage_return: [0x0D]
do_carriage_return(st) == send_bytes(st, <<13>>)

\* do_wait: [0x1F, 0x28, 0x61, 0x01, duration]
do_wait(st, duration) ==
    IF ~(0 <= duration /\ duration <= 255) THEN Raise(st, "ValueError")
    ELSE send_bytes(st, <<31, 40, 97, 1, duration>>)

\* do_screen_saver: [0x1F, 0x28, 0x61, 0x40, pattern]
do_screen_saver(st, pattern) ==
    IF ~(0 <= pattern /\ pattern <= 4) THEN Raise(st, "ValueError")
    ELSE send_bytes(st, <<31, 40, 97, 64, pattern>>)

\* do_display_scroll that frames the high byte of each pair first
do_display_scroll_HighFirst(st, shift_bytes, repeat_count, speed) ==
    IF ~(0 <= shift_bytes /\ shift_bytes <= 1023) THEN Raise(st, "ValueError")
    ELSE IF ~(1 <= repeat_count /\ repeat_count <= 65535) THEN Raise(st, "ValueError")
    ELSE IF ~(0 <= speed /\ speed <= 255) THEN Raise(st, "ValueError")
    ELSE send_bytes(st, <<31, 40, 97, 16,
                          (shift_bytes \div 256) % 256, shift_bytes % 256,
                          (repeat_count \div 256) % 256, repeat_count % 256, speed>>)

\* do_display_scroll: [0x1F, 0x28, 0x61, 0x10, wl, wh, cl, ch, speed]
do_display_scroll(st, shift_bytes, repeat_count, speed) ==
    IF ~(0 <= shift_bytes /\ shift_bytes <= 1023) THEN Raise(st, "ValueError")
    ELSE IF ~(1 <= repeat_count /\ repeat_count <= 65535) THEN Raise(st, "ValueError")
    ELSE IF ~(0 <= speed /\ speed <= 255) THEN Raise(st, "ValueError")
    ELSE LET wl == shift_bytes % 256
             wh == (shift_bytes \div 256) % 256
             cl == repeat_count % 256
             ch == (repeat_count \div 256) % 256
         IN send_bytes(st, <<31, 40, 97, 16, wl, wh, cl, ch, speed>>)

\* write_text: [ord(char) for char in text]; a text is modelled by the
\* sequence of its characters' code points
write_text(st, text) == send_bytes(st, [i \in 1..Len(text) |-> text[i]])

\* define_user_window that takes any window number
define_user_window_AnyWindow(st, window_num, x, y, w, h) ==
    IF ~((0 <= x /\ x <= 279) \/ (0 <= y /\ y <= 3)) THEN Raise(st, "ValueError")
    ELSE IF ~((1 <= w /\ w <= 280) \/ (1 <= h /\ h <= 4)) THEN Raise(st, "ValueError")
    ELSE send_bytes(st, <<31, 40, 119, 2, window_num, 1,
                          x % 256, (x \div 256) % 256,
                          y % 256, (y \div 256) % 256,
                          w % 256, (w \div 256) % 256,
                          h % 256, (h \div 256) % 256>>)

\* define_user_window:
\* [0x1F, 0x28, 0x77, 0x02, window_num, 0x01, x lo, x hi, y lo, y hi, w lo, w hi, h lo, h hi]
define_user_window(st, window_num, x, y, w, h) ==
    IF ~(1 <= window_num /\ window_num <= 4) THEN Raise(st, "ValueError")
    ELSE IF ~((0 <= x /\ x <= 279) \/ (0 <= y /\ y <= 3)) THEN Raise(st, "ValueError")
    ELSE IF ~((1 <= w /\ w <= 280) \/ (1 <= h /\ h <= 4)) THEN Raise(st, "ValueError")
    ELSE send_bytes(st, <<31, 40, 119, 2, window_num, 1,
                          x % 256, (x \div 256) % 256,
                          y % 256, (y \div 256) % 256,
                          w % 256, (w \div 256) % 256,
                          h % 256, (h \div 256) % 256>>)

\* delete_user_window that deletes first and clears afterwards
delete_user_window_DeleteFirst(st, window_num, clear) ==
    IF ~(1 <= window_num /\ window_num <= 4) THEN Raise(st, "ValueError")
    ELSE LET s1 == send_bytes(st, <<31, 40, 119, 2, window_num, 0>>)
         IN IF clear /\ Ok(s1) THEN clear_window(s1, window_num) ELSE s1

\* delete_user_window: [0x1F, 0x28, 0x77, 0x02, window_num, 0x00], after
\* clear_window(window_num) when `clear`
delete_user_window(st, window_num, clear) ==
    IF ~(1 <= window_num /\ window_num <= 4) THEN Raise(st, "ValueError")
    ELSE LET s1 == IF clear THEN clear_window(st, window_num) ELSE st
         IN IF Ok(s1) THEN send_bytes(s1, <<31, 40, 119, 2, window_num, 0>>) ELSE s1

\* define_base_window that sends the frame but does not record the size
define_base_window_KeepsSize(st, mode) ==
    IF ~(0 <= mode /\ mode <= 1) THEN Raise(st, "ValueError")
    ELSE send_bytes(st, <<31, 40, 119, 16, mode>>)

\* define_base_window: records the size, then [0x1F, 0x28, 0x77, 0x10, mode]
define_base_window(st, mode) ==
    IF ~(0 <= mode /\ mode <= 1) THEN Raise(st, "ValueError")
    ELSE LET s1 == IF mode = 0 THEN [st EXCEPT !.width = 140, !.height = 32]
                   ELSE IF mode = 1 THEN [st EXCEPT !.width = 256, !.height = 32]
                   ELSE st
         IN send_bytes(s1, <<31, 40, 119, 16, mode>>)

\* display_realtime_image that does not compare len(image_data) with the size
display_realtime_image_NoLengthCheck(st, image_data, w, h) ==
    IF ~(1 <= w /\ w <= 256) THEN Raise(st, "ValueError")
    ELSE IF h % 8 # 0 \/ ~(1 <= h /\ h <= 32) THEN Raise(st, "ValueError")
    ELSE send_bytes(st, <<31, 40, 102, 17,
                          w % 256, (w \div 256) % 256,
                          (h \div 8) % 256, ((h \div 8) \div 256) % 256,
                          1>> \o image_data)

\* display_realtime_image that frames the width high byte first
display_realtime_image_HighByteFirst(st, image_data, w, h) ==
    IF ~(1 <= w /\ w <= 256) THEN Raise(st, "ValueError")
    ELSE IF h % 8 # 0 \/ ~(1 <= h /\ h <= 32) THEN Raise(st, "ValueError")
    ELSE IF Len(image_data) # w * (h \div 8) THEN Raise(st, "ValueError")
    ELSE send_bytes(st, <<31, 40, 102, 17,
                          (w \div 256) % 256, w % 256,
                          (h \div 8) % 256, ((h \div 8) \div 256) % 256,
                          1>> \o image_data)

\* display_realtime_image:
\* [0x1F, 0x28, 0x66, 0x11, width lo, width hi, byte_rows lo, byte_rows hi, 1] + image_data
display_realtime_image(st, image_data, w, h) ==
    IF ~(1 <= w /\ w <= 256) THEN Raise(st, "ValueError")
    ELSE IF h % 8 # 0 \/ ~(1 <= h /\ h <= 32) THEN Raise(st, "ValueError")
    ELSE LET byte_rows == h \div 8
             expected_length == w * byte_rows
         IN IF Len(image_data) # expected_length THEN Raise(st, "ValueError")
            ELSE send_bytes(st, <<31, 40, 102, 17,
                                  w % 256, (w \div 256) % 256,
                                  byte_rows % 256, (byte_rows \div 256) % 256,
                                  1>> \o image_data)

-----------------------------------------------------------------------------
(* Construction, lines 93-131.  An optional argument is a sequence: <<>>   *)
(* for None, <<v>> for the value v.                                        *)

\* str.upper() on the mode strings used here
Upper(s) == CASE s = "md1" -> "MD1"
              [] s = "md2" -> "MD2"
              [] s = "md3" -> "MD3"
              [] OTHER -> s

\* the part of __init__ after set_luminance: cursor blink, then the mode
InitTail(st, cursor_blink, mode) ==
    LET s1 == IF cursor_blink # <<>> THEN set_cursor_blink(st, cursor_blink[1]) ELSE st
    IN IF ~Ok(s1) \/ mode = <<>> THEN s1
       ELSE LET m == Upper(mode[1])
            IN IF m = "MD1" THEN set_mode_md1(s1)
               ELSE IF m = "MD2" THEN set_mode_md2(s1)
               ELSE IF m = "MD3" THEN set_mode_md3(s1)
               ELSE Raise(s1, "ValueError")

\* __init__: the size from base_window_mode, initialize, luminance, the rest
NAGP1250(luminance, cursor_blink, mode, base_window_mode) ==
    LET s0 == [raised |-> "none", frames |-> <<>>, wire |-> <<>>, width |-> 0, height |-> 0]
    IN IF base_window_mode \notin {0, 1} THEN Raise(s0, "ValueError")
       ELSE LET s1 == [s0 EXCEPT !.width = IF base_window_mode = 0 THEN 140 ELSE 256,
                                 !.height = 32]
                s2 == initialize(s1)
                s3 == IF Ok(s2) THEN set_luminance(s2, luminance) ELSE s2
            IN IF Ok(s3) THEN InitTail(s3, cursor_blink, mode) ELSE s3

-----------------------------------------------------------------------------
(* Arguments the calls are made with *)

\* code points of the characters of a text: ASCII, Latin-1, and beyond one byte
CodePoints == {0, 65, 255, 256, 8364, 65535, 65536, 1114111}

RECURSIVE SeqsUpTo(_, _)
\* the sequences over S of length at most n
SeqsUpTo(S, n) ==
    IF n = 0 THEN {<<>>}
    ELSE LET shorter == SeqsUpTo(S, n - 1)
         IN shorter \cup {Append(t, c) : t \in {u \in shorter : Len(u) = n - 1}, c \in S}

Texts == SeqsUpTo(CodePoints, MaxTextLen)

\* image heights: the multiples of 8 around the valid ones, the ends of 1..32,
\* and heights that are no multiple of 8
ImageHeights == {8 * k : k \in (0 - Margin)..(4 + Margin)} \cup Edge(1, 32) \cup {4, 12}

ImageWidths == Edge(1, 256) \cup {16}

ImagePatterns == {"zeros", "ones", "ramp", "wide", "lastbad", "negative"}

\* an image_data list of n items
ImageData(n, pattern) ==
    [i \in 1..n |->
        CASE pattern = "zeros" -> 0
          [] pattern = "ones" -> 255
          [] pattern = "ramp" -> (i - 1) % 256
          [] pattern = "wide" -> 256 + ((i - 1) % 256)
          [] pattern = "lastbad" -> IF i = n THEN 65536 ELSE (i - 1) % 256
          [] pattern = "negative" -> IF i = 1 THEN 0 - 1 ELSE 255]

\* the lengths tried for a width and a height: the matching one, its
\* neighbours, and none at all
ImageLengths(w, h) ==
    LET e == w * (h \div 8)
    IN {n \in ((e - Margin)..(e + Margin)) \cup {0} : n >= 0 /\ n <= 1024 + Margin}

NoCall == [op |-> "", args |-> <<>>, data |-> <<>>, clear |-> FALSE]

\* no send_bytes call is followed step by step
NoBusyWait ==
    /\ pin_sbusy = "Pin"
    /\ elapsed = 0
    /\ wpc = ""
    /\ polled = <<>>
    /\ warned = FALSE
    /\ phases = <<>>

\* the display's settings are not followed, and no construction is
NoDevice ==
    /\ device = [mode |-> 0, window |-> 0]
    /\ pin_reset = "Pin"
    /\ events = <<>>

-----------------------------------------------------------------------------
(* Actions of the driver: one per public method *)

\* the call op(args) ran as r says
Do(op, args, data, clear, r) ==
    /\ pc' = "done"
    /\ call' = [op |-> op, args |-> args, data |-> data, clear |-> clear]
    /\ raised' = r.raised
    /\ frames' = r.frames
    /\ wire' = r.wire
    /\ width' = r.width
    /\ height' = r.height
    /\ UNCHANGED <<bitmap, packed, before, windows, devvars, busyvars>>

\* the caller goes on after the call
Return ==
    /\ pc = "done"
    /\ pc' = "idle"
    /\ call' = NoCall
    /\ raised' = "none"
    /\ frames' = <<>>
    /\ wire' = <<>>
    /\ UNCHANGED <<width, height, bitmap, packed, before, windows, devvars, busyvars>>

Call_initialize ==
    /\ pc = "idle"
    /\ Do("initialize", <<>>, <<>>, FALSE, initialize(Fresh))

Call_set_font ==
    \E font_id \in Edge(0, 13) :
        /\ pc = "idle"
        /\ Do("set_font", <<font_id>>, <<>>, FALSE, set_font(Fresh, font_id))

Call_set_character_code ==
    \E code \in Edge(0, 13) \cup Edge(16, 19) :
        /\ pc = "idle"
        /\ Do("set_character_code", <<code>>, <<>>, FALSE, set_character_code(Fresh, code))

Call_set_cursor_blink ==
    \E mode \in Edge(0, 1) :
        /\ pc = "idle"
        /\ Do("set_cursor_blink", <<mode>>, <<>>, FALSE, set_cursor_blink(Fresh, mode))

Call_set_write_logic ==
    \E mode \in Edge(0, 3) :
        /\ pc = "idle"
        /\ Do("set_write_logic", <<mode>>, <<>>, FALSE, set_write_logic(Fresh, mode))

Call_set_horizontal_scroll_speed ==
    \E speed \in Edge(0, 31) :
        /\ pc = "idle"
        /\ Do("set_horizontal_scroll_speed", <<speed>>, <<>>, FALSE,
              set_horizontal_scroll_speed(Fresh, speed))

Call_set_luminance ==
    \E luminance \in Edge(1, 8) :
        /\ pc = "idle"
        /\ Do("set_luminance", <<luminance>>, <<>>, FALSE, set_luminance(Fresh, luminance))

Call_set_overwrite_mode ==
    /\ pc = "idle"
    /\ Do("set_overwrite_mode", <<>>, <<>>, FALSE, set_overwrite_mode(Fresh))

Call_set_vertical_scroll ==
    /\ pc = "idle"
    /\ Do("set_vertical_scroll", <<>>, <<>>, FALSE, set_vertical_scroll(Fresh))

Call_set_horizontal_scroll ==
    /\ pc = "idle"
    /\ Do("set_horizontal_scroll", <<>>, <<>>, FALSE, set_horizontal_scroll(Fresh))

Call_set_mode_md1 ==
    /\ pc = "idle"
    /\ Do("set_mode_md1", <<>>, <<>>, FALSE, set_mode_md1(Fresh))

Call_set_mode_md2 ==
    /\ pc = "idle"
    /\ Do("set_mode_md2", <<>>, <<>>, FALSE, set_mode_md2(Fresh))

Call_set_mode_md3 ==
    /\ pc = "idle"
    /\ Do("set_mode_md3", <<>>, <<>>, FALSE, set_mode_md3(Fresh))

Call_set_font_magnification ==
    \E h \in Edge(1, 4), v \in Edge(1, 4) :
        /\ pc = "idle"
        /\ Do("set_font_magnification", <<h, v>>, <<>>, FALSE, set_font_magnification(Fresh, h, v))

Call_set_character_spacing ==
    \E mode \in Edge(0, 3) :
        /\ pc = "idle"
        /\ Do("set_character_spacing", <<mode>>, <<>>, FALSE, set_character_spacing(Fresh, mode))

Call_set_cursor_position ==
    \E x \in Edge(0, 255) \cup Edge(140, 280) \cup {300}, y \in Edge(0, 3) \cup {31} :
        /\ pc = "idle"
        /\ Do("set_cursor_position", <<x, y>>, <<>>, FALSE, set_cursor_position(Fresh, x, y))

Call_set_reverse_display ==
    \E mode \in Edge(0, 1) :
        /\ pc = "idle"
        /\ Do("set_reverse_display", <<mode>>, <<>>, FALSE, set_reverse_display(Fresh, mode))

Call_clear_window ==
    \E window_num \in Edge(0, 4) :
        /\ pc = "idle"
        /\ Do("clear_window", <<window_num>>, <<>>, FALSE, clear_window(Fresh, window_num))

Call_do_blink_display ==
    \E pattern \in Edge(0, 2), normal_time \in Edge(1, 255),
       blink_time \in Edge(1, 255), repetition \in Edge(1, 255) :
        /\ pc = "idle"
        /\ Do("do_blink_display", <<pattern, normal_time, blink_time, repetition>>, <<>>, FALSE,
              do_blink_display(Fresh, pattern, normal_time, blink_time, repetition))

Call_do_home ==
    /\ pc = "idle"
    /\ Do("do_home", <<>>, <<>>, FALSE, do_home(Fresh))

Call_do_line_feed ==
    /\ pc = "idle"
    /\ Do("do_line_feed", <<>>, <<>>, FALSE, do_line_feed(Fresh))

Call_do_backspace ==
    /\ pc = "idle"
    /\ Do("do_backspace", <<>>, <<>>, FALSE, do_backspace(Fresh))

Call_do_horizontal_tab ==
    /\ pc = "idle"
    /\ Do("do_horizontal_tab", <<>>, <<>>, FALSE, do_horizontal_tab(Fresh))

Call_do_carriage_return ==
    /\ pc = "idle"
    /\ Do("do_carriage_return", <<>>, <<>>, FALSE, do_carriage_return(Fresh))

Call_do_wait ==
    \E duration \in Edge(0, 255) :
        /\ pc = "idle"
                                   /\ Do("do_wait", <<duration>>, <<>>, FALSE, do_wait(Fresh, duration))

Call_do_select_window ==
    \E window_num \in Edge(0, 4) :
        /\ pc = "idle"
        /\ Do("do_select_window", <<window_num>>, <<>>, FALSE, do_select_window(Fresh, window_num))

Call_do_screen_saver ==
    \E pattern \in Edge(0, 4) :
        /\ pc = "idle"
        /\ Do("do_screen_saver", <<pattern>>, <<>>, FALSE, do_screen_saver(Fresh, pattern))

Call_do_display_scroll ==
    \E shift_bytes \in Edge(0, 1023), repeat_count \in Edge(1, 65535), speed \in Edge(0, 255) :
        /\ pc = "idle"
        /\ Do("do_display_scroll", <<shift_bytes, repeat_count, speed>>, <<>>, FALSE,
              do_display_scroll(Fresh, shift_bytes, repeat_count, speed))

Call_write_text ==
    \E text \in Texts :
        /\ pc = "idle"
                        /\ Do("write_text", <<>>, text, FALSE, write_text(Fresh, text))

Call_define_user_window ==
    \E window_num \in Edge(1, 4), x \in Edge(0, 279) \cup {300}, y \in Edge(0, 3),
       w \in Edge(1, 280), h \in Edge(1, 4) \cup {9} :
        /\ pc = "idle"
        /\ Do("define_user_window", <<window_num, x, y, w, h>>, <<>>, FALSE,
              define_user_window(Fresh, window_num, x, y, w, h))

Call_delete_user_window ==
    \E window_num \in Edge(1, 4), clear \in BOOLEAN :
        /\ pc = "idle"
        /\ Do("delete_user_window", <<window_num>>, <<>>, clear,
              delete_user_window(Fresh, window_num, clear))

Call_define_base_window ==
    \E mode \in Edge(0, 1) :
        /\ pc = "idle"
        /\ Do("define_base_window", <<mode>>, <<>>, FALSE, define_base_window(Fresh, mode))

Call_display_realtime_image ==
    \E w \in ImageWidths, h \in ImageHeights :
        \E n \in ImageLengths(w, h), pattern \in ImagePatterns :
            LET image_data == ImageData(n, pattern)
            IN /\ pc = "idle"
               /\ Do("display_realtime_image", <<w, h>>, image_data, FALSE,
                     display_realtime_image(Fresh, image_data, w, h))

-----------------------------------------------------------------------------
(* The driver *)

\* the state after a construction that did not raise
Init ==
    \E luminance \in Edge(1, 8), cursor_blink \in {<<>>, <<0>>, <<1>>, <<2>>},
       mode \in {<<>>, <<"MD1">>, <<"md2">>, <<"MD3">>, <<"MD4">>},
       base_window_mode \in Edge(0, 1) :
        LET r == NAGP1250(luminance, cursor_blink, mode, base_window_mode)
        IN /\ Ok(r)
           /\ pc = "done"
           /\ call = [op |-> "__init__", args |-> <<luminance, base_window_mode>>,
                      data |-> <<>>, clear |-> FALSE]
           /\ raised = r.raised
           /\ frames = r.frames
           /\ wire = r.wire
           /\ width = r.width
           /\ height = r.height
           /\ bitmap = <<>>
           /\ packed = [raised |-> "none", out |-> <<>>]
           /\ before = <<>>
           /\ windows = {}
           /\ NoDevice
           /\ NoBusyWait

Next ==
    \/ Return
    \/ Call_initialize
    \/ Call_set_font
    \/ Call_set_character_code
    \/ Call_set_cursor_blink
    \/ Call_set_write_logic
    \/ Call_set_horizontal_scroll_speed
    \/ Call_set_luminance
    \/ Call_set_overwrite_mode
    \/ Call_set_vertical_scroll
    \/ Call_set_horizontal_scroll
    \/ Call_set_mode_md1
    \/ Call_set_mode_md2
    \/ Call_set_mode_md3
    \/ Call_set_font_magnification
    \/ Call_set_character_spacing
    \/ Call_set_cursor_position
    \/ Call_set_reverse_display
    \/ Call_clear_window
    \/ Call_do_blink_display
    \/ Call_do_home
    \/ Call_do_line_feed
    \/ Call_do_backspace
    \/ Call_do_horizontal_tab
    \/ Call_do_carriage_return
    \/ Call_do_wait
    \/ Call_do_select_window
    \/ Call_do_screen_saver
    \/ Call_do_display_scroll
    \/ Call_write_text
    \/ Call_define_user_window
    \/ Call_delete_user_window
    \/ Call_define_base_window
    \/ Call_display_realtime_image

Spec == Init /\ [][Next]_vars

-----------------------------------------------------------------------------
(* pack_bitmap, lines 776-802.  bitmap[y][x] of the source is              *)
(* bitmap[y + 1][x + 1] here; reading a row or a cell the bitmap does not  *)
(* have raises IndexError, which ends the call without a result.           *)

\* range(0, height, 8)
ByteRows(h) == {8 * k : k \in 0..((h + 7) \div 8 - 1)}

\* some bitmap[y][x] the loops reach does not exist
ReadsOutside(bm, w, h) ==
    \E x \in 0..(w - 1), byte_row \in ByteRows(h), bit \in 0..7 :
        LET y == byte_row + bit
        IN y >= Len(bm) \/ x >= Len(bm[y + 1])

RECURSIVE PackBits(_, _, _, _, _)
\* the `for bit in range(8)` loop from `bit` on, `byte` so far
PackBits(bm, x, byte_row, bit, byte) ==
    IF bit > 7 THEN byte
    ELSE LET y == byte_row + bit
         IN PackBits(bm, x, byte_row, bit + 1,
                     IF bm[y + 1][x + 1] # 0 THEN byte + 2 ^ (7 - bit) ELSE byte)

\* the bytes appended for column x: one per byte_row, top band first
PackColumn(bm, x, h) ==
    [k \in 1..Cardinality(ByteRows(h)) |-> PackBits(bm, x, 8 * (k - 1), 0, 0)]

RECURSIVE PackColumns(_, _, _, _)
\* `packed` after the columns lo..hi, in order (split in halves to keep the
\* nesting shallow)
PackColumns(bm, lo, hi, h) ==
    IF lo > hi THEN <<>>
    ELSE IF lo = hi THEN PackColumn(bm, lo, h)
    ELSE LET mid == (lo + hi) \div 2
         IN PackColumns(bm, lo, mid, h) \o PackColumns(bm, mid + 1, hi, h)

RECURSIVE PackBitsLsbFirst(_, _, _, _, _)
PackBitsLsbFirst(bm, x, byte_row, bit, byte) ==
    IF bit > 7 THEN byte
    ELSE LET y == byte_row + bit
         IN PackBitsLsbFirst(bm, x, byte_row, bit + 1,
                             IF bm[y + 1][x + 1] # 0 THEN byte + 2 ^ bit ELSE byte)

\* pack_bitmap that puts the top row of a band in bit 0
pack_bitmap_LsbFirst(bm, w, h) ==
    IF ReadsOutside(bm, w, h) THEN [raised |-> "IndexError", out |-> <<>>]
    ELSE [raised |-> "none",
          out |-> [i \in 1..(w * Cardinality(ByteRows(h))) |->
                     PackBitsLsbFirst(bm, (i - 1) \div Cardinality(ByteRows(h)),
                                      8 * ((i - 1) % Cardinality(ByteRows(h))), 0, 0)]]

\* pack_bitmap that packs only the top band of every column
pack_bitmap_TopBandOnly(bm, w, h) ==
    IF ReadsOutside(bm, w, h) THEN [raised |-> "IndexError", out |-> <<>>]
    ELSE [raised |-> "none", out |-> [i \in 1..w |-> PackBits(bm, i - 1, 0, 0, 0)]]

pack_bitmap(bm, w, h) ==
    IF ReadsOutside(bm, w, h) THEN [raised |-> "IndexError", out |-> <<>>]
    ELSE [raised |-> "none", out |-> PackColumns(bm, 0, w - 1, h)]

-----------------------------------------------------------------------------
(* The bitmaps packed *)

BitmapPatterns == {"zeros", "ones", "checker", "diagonal", "stripes"}

\* cell (x, y) of a pattern
PatternCell(pattern, x, y) ==
    CASE pattern = "zeros" -> 0
      [] pattern = "ones" -> 1
      [] pattern = "checker" -> (x + y) % 2
      [] pattern = "diagonal" -> B2I(x % 8 = y % 8)
      [] pattern = "stripes" -> B2I(y % 3 = 0)

\* the h x w bitmap of a pattern, with the cells of `flip` inverted
MakeBitmap(w, h, pattern, flip) ==
    [y1 \in 1..h |-> [x1 \in 1..w |->
        IF <<x1 - 1, y1 - 1>> \in flip
        THEN 1 - PatternCell(pattern, x1 - 1, y1 - 1)
        ELSE PatternCell(pattern, x1 - 1, y1 - 1)]]

RECURSIVE SubsetsUpTo(_, _)
\* the subsets of S with at most n elements
SubsetsUpTo(S, n) ==
    IF n = 0 THEN {{}}
    ELSE LET smaller == SubsetsUpTo(S, n - 1)
         IN smaller \cup {t \cup {c} : t \in smaller, c \in S}

\* heights of the enumerated bitmaps: whole bands, and a last band cut short
SmallHeights == {8 * k : k \in 1..MaxBands} \cup {8 * k - 4 : k \in 1..MaxBands}

\* sizes of the bitmaps taken as a pattern only
LargeSizes == {<<16, 8>>, <<140, 32>>, <<256, 8>>, <<256, 24>>, <<256, 32>>, <<140, 30>>}

BitmapW == IF bitmap = <<>> THEN 0 ELSE Len(bitmap[1])

BitmapH == Len(bitmap)

InitPack ==
    /\ \/ \E w \in 1..MaxW, h \in SmallHeights, pattern \in BitmapPatterns :
            \E flip \in SubsetsUpTo((0..(w - 1)) \X (0..(h - 1)), MaxOn) :
                bitmap = MakeBitmap(w, h, pattern, flip)
       \/ \E size \in LargeSizes, pattern \in BitmapPatterns :
            bitmap = MakeBitmap(size[1], size[2], pattern, {})
    /\ pc = "bitmap"
    /\ packed = [raised |-> "none", out |-> <<>>]
    /\ call = NoCall
    /\ raised = "none"
    /\ frames = <<>>
    /\ wire = <<>>
    /\ width = 140
    /\ height = 32
    /\ before = <<>>
    /\ windows = {}
    /\ NoDevice
    /\ NoBusyWait

\* packed = pack_bitmap(bitmap, width of the bitmap, height of the bitmap)
Pack ==
    /\ pc = "bitmap"
    /\ pc' = "packed"
    /\ packed' = pack_bitmap(bitmap, BitmapW, BitmapH)
    /\ call' = [op |-> "pack_bitmap", args |-> <<BitmapW, BitmapH>>, data |-> <<>>,
                clear |-> FALSE]
    /\ UNCHANGED <<width, height, raised, frames, wire, bitmap, before, windows, devvars, busyvars>>

\* display_realtime_image(packed, width, height), as the examples call it
DisplayPacked ==
    /\ pc = "packed"
    /\ packed.raised = "none"
    /\ Do("display_realtime_image", <<BitmapW, BitmapH>>, packed.out, FALSE,
          display_realtime_image(Fresh, packed.out, BitmapW, BitmapH))

NextPack == Pack \/ DisplayPacked

SpecPack == InitPack /\ [][NextPack]_vars

-----------------------------------------------------------------------------
(* The window commands, and the user windows the display holds.  The       *)
(* display keeps a user window from the frame that defines it              *)
(* ([0x1F, 0x28, 0x77, 0x02, n, 0x01, ...], line 709) until the frame that *)
(* deletes it ([0x1F, 0x28, 0x77, 0x02, n, 0x00], line 746).               *)

\* the frame is a "user window definition / cancel" command
IsUserWindowFrame(frame) == Len(frame) >= 6 /\ SubSeq(frame, 1, 4) = <<31, 40, 119, 2>>

\* the frame is a "window select" command
IsSelectFrame(frame) == Len(frame) = 5 /\ SubSeq(frame, 1, 4) = <<31, 40, 119, 1>>

\* the display's user windows after it received the frame
WindowsAfterFrame(ws, frame) ==
    IF ~IsUserWindowFrame(frame) THEN ws
    ELSE IF frame[6] = 1 THEN ws \cup {frame[5]}
    ELSE ws \ {frame[5]}

RECURSIVE WindowsAfter(_, _, _)
\* the display's user windows after the frames fs[k], fs[k + 1], ...
WindowsAfter(ws, fs, k) ==
    IF k > Len(fs) THEN ws
    ELSE WindowsAfter(WindowsAfterFrame(ws, fs[k]), fs, k + 1)

\* the frame is the "initialize display" command [0x1B, 0x40]
IsInitializeFrame(frame) == frame = <<27, 64>>

\* the frame is a "base window mode" command [0x1F, 0x28, 0x77, 0x10, mode]
IsBaseWindowFrame(frame) == Len(frame) = 5 /\ SubSeq(frame, 1, 4) = <<31, 40, 119, 16>>

\* the display's settings after it received the frame: initialization puts
\* it in base window mode 0 with window 0 current, a base-window-mode frame
\* sets the mode, a select frame the current window
DeviceAfterFrame(dev, frame) ==
    IF IsInitializeFrame(frame) THEN [mode |-> 0, window |-> 0]
    ELSE IF IsBaseWindowFrame(frame) THEN [dev EXCEPT !.mode = frame[5]]
    ELSE IF IsSelectFrame(frame) THEN [dev EXCEPT !.window = frame[5]]
    ELSE dev

RECURSIVE DeviceAfter(_, _, _)
\* the display's settings after the frames fs[k], fs[k + 1], ...
DeviceAfter(dev, fs, k) ==
    IF k > Len(fs) THEN dev
    ELSE DeviceAfter(DeviceAfterFrame(dev, fs[k]), fs, k + 1)

\* the call op(args) ran as r says, and the display received its frames
DoWindow(op, args, data, clear, r) ==
    /\ pc' = "done"
    /\ call' = [op |-> op, args |-> args, data |-> data, clear |-> clear]
    /\ raised' = r.raised
    /\ frames' = r.frames
    /\ wire' = r.wire
    /\ width' = r.width
    /\ height' = r.height
    /\ windows' = WindowsAfter(windows, r.frames, 1)
    /\ device' = DeviceAfter(device, r.frames, 1)
    /\ UNCHANGED <<bitmap, packed, before, pin_reset, events, busyvars>>

\* positions and sizes of a user window: in range, at the far ends, and with
\* one or both of a pair out of range
WindowGeometries ==
    {<<0, 0, 1, 1>>, <<279, 3, 280, 4>>, <<300, 0, 1, 1>>, <<300, 9, 1, 1>>,
     <<0, 0, 281, 1>>, <<0, 0, 281, 5>>}

Win_define_user_window ==
    \E window_num \in Edge(1, 4) \cup (1..4), g \in WindowGeometries :
        /\ pc = "idle"
        /\ DoWindow("define_user_window", <<window_num, g[1], g[2], g[3], g[4]>>, <<>>, FALSE,
                    define_user_window(Fresh, window_num, g[1], g[2], g[3], g[4]))

Win_delete_user_window ==
    \E window_num \in Edge(1, 4) \cup (1..4), clear \in BOOLEAN :
        /\ pc = "idle"
        /\ DoWindow("delete_user_window", <<window_num>>, <<>>, clear,
                    delete_user_window(Fresh, window_num, clear))

Win_do_select_window ==
    \E window_num \in Edge(0, 4) :
        /\ pc = "idle"
        /\ DoWindow("do_select_window", <<window_num>>, <<>>, FALSE,
                    do_select_window(Fresh, window_num))

Win_clear_window ==
    \E window_num \in Edge(0, 4) :
        /\ pc = "idle"
        /\ DoWindow("clear_window", <<window_num>>, <<>>, FALSE,
                    clear_window(Fresh, window_num))

NextWindows ==
    \/ Return
    \/ Win_define_user_window
    \/ Win_delete_user_window
    \/ Win_do_select_window
    \/ Win_clear_window

SpecWindows == Init /\ [][NextWindows]_vars

-----------------------------------------------------------------------------
(* One send_bytes call, step by step (lines 155-190), with the busy wait   *)
(* of _wait_for_sbusy (lines 133-152).  Time is counted in microseconds    *)
(* from `start`; it passes while the call sleeps.  What the SBUSY pin      *)
(* returns is the display's doing: each poll may find it high or low.      *)

\* _wait_for_sbusy's default timeout_us
timeout_us == 10000

\* longest oversleep of a sleep_us(10), in steps of 2500 us
MaxOversleep == 1

\* the time a sleep_us(10) takes: 10 us, or longer when the sleep overruns
SleepTimes == {10} \cup {2500 * k : k \in 1..MaxOversleep}

\* the frames handed to send_bytes: empty, bytes, a 16-bit item, items out of range
SendData == {<<>>, <<12>>, <<27, 64>>, <<31, 88, 256>>, <<65536>>, <<12, 0 - 1>>}

\* send_bytes that waits for the pin whatever wait_busy says
WaitsForBusy_IgnoresFlag(wait_busy, pin) == pin # "None"

\* line 189: if wait_busy and self.pin_sbusy
WaitsForBusy(wait_busy, pin) == wait_busy /\ pin # "None"

\* a wait that gives up as soon as the timeout is reached
TimedOut_AtTimeout(ticks_diff, timeout) == ticks_diff >= timeout

\* line 148: if time.ticks_diff(time.ticks_us(), start) > timeout_us
TimedOut(ticks_diff, timeout) == ticks_diff > timeout

\* send_bytes enters phase p
Enter(p) ==
    /\ pc' = p
    /\ phases' = Append(phases, p)

InitSend ==
    /\ pc = "Idle"
    /\ phases = <<"Idle">>
    /\ pin_sbusy \in {"None", "Pin"}
    /\ elapsed = 0
    /\ wpc = ""
    /\ polled = <<>>
    /\ warned = FALSE
    /\ call = NoCall
    /\ raised = "none"
    /\ frames = <<>>
    /\ wire = <<>>
    /\ width = 140
    /\ height = 32
    /\ bitmap = <<>>
    /\ packed = [raised |-> "none", out |-> <<>>]
    /\ before = <<>>
    /\ windows = {}
    /\ NoDevice

\* send_bytes(data, wait_busy) is called and builds `out` (lines 169-183):
\* an item out of range raises, otherwise the write is next
Send_Encode ==
    \E data \in SendData, wait_busy \in BOOLEAN :
        /\ pc = "Idle"
        /\ call = NoCall
        /\ call' = [op |-> "send_bytes", args |-> <<wait_busy>>, data |-> data,
                    clear |-> FALSE]
        /\ IF Ok(send_bytes(Fresh, data))
           THEN Enter("Sending") /\ UNCHANGED raised
           ELSE raised' = send_bytes(Fresh, data).raised /\ UNCHANGED <<pc, phases>>
        /\ UNCHANGED <<width, height, frames, wire, bitmap, packed, before, windows, devvars,
                       pin_sbusy, elapsed, wpc, polled, warned>>

\* self.spi.write(out) returns (line 187); then either _wait_for_sbusy is
\* entered and takes `start` (lines 189-146), or the call returns
Send_Write ==
    /\ pc = "Sending"
    /\ frames' = send_bytes(Fresh, call.data).frames
    /\ wire' = send_bytes(Fresh, call.data).wire
    /\ IF WaitsForBusy(call.args[1], pin_sbusy) /\ pin_sbusy # "None"
       THEN Enter("WaitingBusy") /\ wpc' = "poll" /\ elapsed' = 0
       ELSE Enter("Idle") /\ UNCHANGED <<wpc, elapsed>>
    /\ UNCHANGED <<width, height, call, raised, bitmap, packed, before, windows, devvars,
                   pin_sbusy, polled, warned>>

\* `while self.pin_sbusy.value()` reads the pin (line 147): low ends the
\* wait; high reads the clock and ends the wait with the warning when the
\* timeout has passed (lines 148-150), and sleeps otherwise
Send_Poll ==
    \E value \in {0, 1} :
        /\ pc = "WaitingBusy"
        /\ wpc = "poll"
        /\ polled' = <<value>>
        /\ IF value = 0
           THEN Enter("Idle") /\ wpc' = "" /\ UNCHANGED warned
           ELSE IF TimedOut(elapsed, timeout_us)
           THEN Enter("Idle") /\ wpc' = "" /\ warned' = TRUE
           ELSE wpc' = "sleep" /\ UNCHANGED <<pc, phases, warned>>
        /\ UNCHANGED <<width, height, call, raised, frames, wire, bitmap, packed, before,
                       windows, devvars, pin_sbusy, elapsed>>

\* time.sleep_us(10) returns (line 151)
Send_Sleep ==
    \E t \in SleepTimes :
        /\ pc = "WaitingBusy"
        /\ wpc = "sleep"
        /\ elapsed' = elapsed + t
        /\ wpc' = "poll"
        /\ UNCHANGED <<width, height, pc, call, raised, frames, wire, bitmap, packed, before,
                       windows, devvars, pin_sbusy, polled, warned, phases>>

NextSend ==
    \/ Send_Encode
    \/ Send_Write
    \/ Send_Poll
    \/ Send_Sleep

SpecSend == InitSend /\ [][NextSend]_vars

\* the interpreter goes on executing the call: a step that can be taken is taken
SpecSendFair == InitSend /\ [][NextSend]_vars /\ WF_vars(NextSend)

-----------------------------------------------------------------------------
(* Construction with any arguments (lines 68-131) *)

\* before NAGP1250(...) is called there is no object and nothing was written
InitNew ==
    /\ pc = "new"
    /\ call = NoCall
    /\ raised = "none"
    /\ frames = <<>>
    /\ wire = <<>>
    /\ width = 0
    /\ height = 0
    /\ bitmap = <<>>
    /\ packed = [raised |-> "none", out |-> <<>>]
    /\ before = <<>>
    /\ windows = {}
    /\ NoDevice
    /\ NoBusyWait

\* the `reset` and `sbusy` arguments: None, a pin number, a Pin object
PinArgs == {"None", "int", "Pin"}

\* Pin(id, mode) of the machine module, which lines 96-97 call for every
\* argument that is no Pin object: a pin object for a pin number; for None
\* the port's Pin either raises TypeError or hands back a pin object
PinOutcomes(arg) == IF arg = "None" THEN {"TypeError", "Pin"} ELSE {"Pin"}

\* reset_display that returns right after raising the line again
reset_display_NoSettle(pin) ==
    IF pin = "None" THEN <<>>
    ELSE << <<"reset", 1>>, <<"reset", 0>>, <<"sleep_ms", 100>>, <<"reset", 1>> >>

\* reset_display: what it does to a reset pin: nothing when self.pin_reset
\* is None, else high, low, 100 ms, high, 100 ms
reset_display(pin) ==
    IF pin = "None" THEN <<>>
    ELSE << <<"reset", 1>>, <<"reset", 0>>, <<"sleep_ms", 100>>,
            <<"reset", 1>>, <<"sleep_ms", 100>> >>

RECURSIVE SendEvents(_, _, _)
\* what send_bytes does for the frames fs[k], fs[k + 1], ...: spi.write,
\* then _wait_for_sbusy when self.pin_sbusy is set
SendEvents(fs, k, sbusy) ==
    IF k > Len(fs) THEN <<>>
    ELSE (IF sbusy = "None" THEN << <<"write", fs[k]>> >>
          ELSE << <<"write", fs[k]>>, <<"wait_sbusy">> >>)
         \o SendEvents(fs, k + 1, sbusy)

\* NAGP1250(spi, reset, sbusy, luminance, cursor_blink, mode, base_window_mode)
New ==
    \E luminance \in Edge(1, 8), cursor_blink \in {<<>>, <<0>>, <<1>>, <<2>>, <<0 - 1>>},
       mode \in {<<>>, <<"MD1">>, <<"md2">>, <<"MD3">>, <<"MD4">>, <<"">>},
       base_window_mode \in Edge(0, 1), reset \in PinArgs, sbusy \in PinArgs :
        \E got_reset \in PinOutcomes(reset), got_sbusy \in PinOutcomes(sbusy) :
            LET r == NAGP1250(luminance, cursor_blink, mode, base_window_mode)
            IN /\ pc = "new"
               /\ pc' = "done"
               /\ call' = [op |-> "__init__",
                           args |-> <<luminance, cursor_blink, mode, base_window_mode,
                                      reset, sbusy>>,
                           data |-> <<>>, clear |-> FALSE]
               /\ IF got_reset = "TypeError" \/ got_sbusy = "TypeError"
                  THEN /\ raised' = "TypeError"
                       /\ pin_reset' = IF got_reset = "TypeError" THEN "None" ELSE got_reset
                       /\ pin_sbusy' = "None"
                       /\ events' = <<>>
                       /\ UNCHANGED <<frames, wire, width, height, device>>
                  ELSE /\ raised' = r.raised
                       /\ pin_reset' = got_reset
                       /\ pin_sbusy' = got_sbusy
                       /\ frames' = r.frames
                       /\ wire' = r.wire
                       /\ width' = r.width
                       /\ height' = r.height
                       /\ events' = IF base_window_mode \notin {0, 1} THEN <<>>
                                    ELSE reset_display(got_reset)
                                         \o SendEvents(r.frames, 1, got_sbusy)
                       /\ device' = DeviceAfter(device, r.frames, 1)
               /\ UNCHANGED <<bitmap, packed, before, windows, elapsed, wpc, polled,
                              warned, phases>>

NextNew == New

SpecNew == InitNew /\ [][NextNew]_vars

-----------------------------------------------------------------------------
(* Construction followed by define_base_window calls, with the display's  *)
(* base window mode followed from the frames sent                         *)

Base_define_base_window ==
    \E mode \in Edge(0, 1) :
        /\ pc = "idle"
        /\ DoWindow("define_base_window", <<mode>>, <<>>, FALSE,
                    define_base_window(Fresh, mode))

\* the caller goes on with the object it has constructed; a construction
\* that raised leaves none
Base_Return ==
    /\ pc = "done"
    /\ ~(call.op = "__init__" /\ raised # "none")
    /\ pc' = "idle"
    /\ call' = NoCall
    /\ raised' = "none"
    /\ frames' = <<>>
    /\ wire' = <<>>
    /\ UNCHANGED <<width, height, bitmap, packed, before, windows, devvars, busyvars>>

NextBase ==
    \/ New
    \/ Base_Return
    \/ Base_define_base_window

SpecBase == InitNew /\ [][NextBase]_vars

-----------------------------------------------------------------------------
(* draw_graphic_lines, lines 845-886.  The angles drawn are whole          *)
(* multiples of 45 degrees; their cosines and sines are kept in millionths *)
(* (0.7071067811865476 as 707107), which gives the same rounded            *)
(* coordinates as the floating-point products for every start and length   *)
(* up to 300.                                                              *)

\* math.cos(math.radians(angle_deg)), in millionths
CosMicro(angle_deg) ==
    CASE angle_deg % 360 = 0 -> 1000000
      [] angle_deg % 360 \in {45, 315} -> 707107
      [] angle_deg % 360 \in {90, 270} -> 0
      [] angle_deg % 360 \in {135, 225} -> 0 - 707107
      [] angle_deg % 360 = 180 -> 0 - 1000000

\* math.sin(math.radians(angle_deg)), in millionths
SinMicro(angle_deg) ==
    CASE angle_deg % 360 \in {0, 180} -> 0
      [] angle_deg % 360 \in {45, 135} -> 707107
      [] angle_deg % 360 = 90 -> 1000000
      [] angle_deg % 360 \in {225, 315} -> 0 - 707107
      [] angle_deg % 360 = 270 -> 0 - 1000000

\* int(round(n / 1000000)): to the nearest integer, a tie to the even one
RoundMicro(n) ==
    LET q == n \div 1000000
        r == n % 1000000
    IN IF 2 * r < 1000000 THEN q
       ELSE IF 2 * r > 1000000 THEN q + 1
       ELSE IF q % 2 = 0 THEN q ELSE q + 1

\* (x, y) of sample i of the line: x0 + deg_x * i and y0 + deg_y * i, rounded,
\* with deg_y = -sin
SamplePoint(x0, y0, angle_deg, i) ==
    <<RoundMicro(x0 * 1000000 + CosMicro(angle_deg) * i),
      RoundMicro(y0 * 1000000 - SinMicro(angle_deg) * i)>>

\* the guard of the three plotting loops without its lower bounds: a
\* negative index then counts from the end of the row or of the buffer
SetPixels_Wraps(bm, points, w, h) ==
    [y1 \in 1..Len(bm) |-> [x1 \in 1..Len(bm[y1]) |->
        IF \E p \in points :
              /\ p[1] < w /\ p[2] < h
              /\ p[1] >= 0 - Len(bm[y1]) /\ p[2] >= 0 - Len(bm)
              /\ x1 - 1 = (IF p[1] < 0 THEN p[1] + Len(bm[y1]) ELSE p[1])
              /\ y1 - 1 = (IF p[2] < 0 THEN p[2] + Len(bm) ELSE p[2])
        THEN 1 ELSE bm[y1][x1]]]

\* the bitmap with the cells of `points` that lie in 0..w-1 x 0..h-1 set to 1
SetPixels(bm, points, w, h) ==
    [y1 \in 1..Len(bm) |-> [x1 \in 1..Len(bm[y1]) |->
        IF /\ <<x1 - 1, y1 - 1>> \in points
           /\ 0 <= x1 - 1 /\ x1 - 1 < w
           /\ 0 <= y1 - 1 /\ y1 - 1 < h
        THEN 1 ELSE bm[y1][x1]]]

\* a line loop that takes one sample more: range(length + 1)
DrawLine_OneMore(bm, line, w, h) ==
    SetPixels(bm, {SamplePoint(line[1], line[2], line[3], i) : i \in 0..line[4]}, w, h)

\* the `for i in range(length)` loop of one line <<x0, y0, angle_deg, length>>
DrawLine(bm, line, w, h) ==
    SetPixels(bm, {SamplePoint(line[1], line[2], line[3], i) : i \in 0..(line[4] - 1)}, w, h)

RECURSIVE DrawLinesFrom(_, _, _, _, _)
\* the `for ... in lines` loop from line k on
DrawLinesFrom(bm, lines, k, w, h) ==
    IF k > Len(lines) THEN bm
    ELSE DrawLinesFrom(DrawLine(bm, lines[k], w, h), lines, k + 1, w, h)

\* draw_graphic_lines(bitmap, lines, width, height): the bitmap it returns,
\* which is the caller's bitmap, modified in place
draw_graphic_lines(bm, lines, w, h) == DrawLinesFrom(bm, lines, 1, w, h)

\* sizes <<width, height>> of the buffers drawn on
CanvasSizes == {<<10, 10>>, <<4, 3>>}

\* what the buffers hold before the call
CanvasPatterns == {"zeros", "checker"}

\* the angles of the lines: the multiples of 45 degrees of one turn, and
\* angles outside it
LineAngles == {45 * k : k \in 0..7} \cup {360, 0 - 45}

\* lengths: negative, zero, short, and longer than the buffer is wide
LineLengths == {0 - 1, 0, 1, 5, 12}

\* the `lines` arguments: any single line starting in or near the buffer,
\* and lists of two lines
LineLists ==
    {<<(<<x0, y0, angle_deg, length>>)>> :
        x0 \in {0 - 2, 0, 5, 9, 12}, y0 \in {0 - 1, 0, 4, 9},
        angle_deg \in LineAngles, length \in LineLengths}
    \cup {<<>>, <<(<<0, 0, 0, 5>>), (<<0, 0, 270, 5>>)>>,
          <<(<<3, 2, 45, 0>>), (<<1, 1, 90, 0 - 3>>)>>}

InitDraw ==
    /\ \E size \in CanvasSizes, pattern \in CanvasPatterns :
            bitmap = MakeBitmap(size[1], size[2], pattern, {})
    /\ before = bitmap
    /\ pc = "canvas"
    /\ packed = [raised |-> "none", out |-> <<>>]
    /\ call = NoCall
    /\ raised = "none"
    /\ frames = <<>>
    /\ wire = <<>>
    /\ width = 140
    /\ height = 32
    /\ windows = {}
    /\ NoDevice
    /\ NoBusyWait

\* bitmap = draw_graphic_lines(bitmap, lines, width of the bitmap, height of the bitmap)
Draw_lines ==
    \E lines \in LineLists :
        /\ pc = "canvas"
        /\ pc' = "drawn"
        /\ before' = bitmap
        /\ bitmap' = draw_graphic_lines(bitmap, lines, BitmapW, BitmapH)
        /\ call' = [op |-> "draw_graphic_lines", args |-> lines, data |-> <<>>,
                    clear |-> FALSE]
        /\ UNCHANGED <<width, height, raised, frames, wire, packed, windows, devvars, busyvars>>

NextDraw == Draw_lines

SpecDraw == InitDraw /\ [][NextDraw]_vars

-----------------------------------------------------------------------------
(* The circle rasterizers, lines 889-1040.  Both run the same midpoint     *)
(* loop; draw_graphic_circle plots eight points per pass,                  *)
(* draw_graphic_circle_filled four horizontal spans.                       *)

RECURSIVE CircleSteps(_, _, _)
\* the <<x, y>> at which the body of `while x >= y` runs, from the state
\* (x, y, d) on
CircleSteps(x, y, d) ==
    IF ~(x >= y) THEN {}
    ELSE {<<x, y>>} \cup
         (IF d < 0 THEN CircleSteps(x, y + 1, d + 2 * (y + 1) + 1)
          ELSE CircleSteps(x - 1, y + 1, d + 2 * ((y + 1) - (x - 1)) + 1))

\* the (px, py) given to plot(): eight per pass of the loop
CirclePoints(cx, cy, radius) ==
    UNION {{<<cx + s[1], cy + s[2]>>, <<cx + s[2], cy + s[1]>>,
            <<cx - s[2], cy + s[1]>>, <<cx - s[1], cy + s[2]>>,
            <<cx - s[1], cy - s[2]>>, <<cx - s[2], cy - s[1]>>,
            <<cx + s[2], cy - s[1]>>, <<cx + s[1], cy - s[2]>>} :
           s \in CircleSteps(radius, 0, 1 - radius)}

\* the cells draw_span(y_offset, x_left, x_right) goes over
SpanPoints(cx, cy, y_offset, x_left, x_right) ==
    {<<x_pos, cy + y_offset>> : x_pos \in (cx - x_left)..(cx + x_right)}

\* the cells of the spans of draw_graphic_circle_filled: four per pass
DiskPoints(cx, cy, radius) ==
    UNION {SpanPoints(cx, cy, s[2], s[1], s[1]) \cup SpanPoints(cx, cy, 0 - s[2], s[1], s[1])
           \cup SpanPoints(cx, cy, s[1], s[2], s[2]) \cup SpanPoints(cx, cy, 0 - s[1], s[2], s[2]) :
           s \in CircleSteps(radius, 0, 1 - radius)}

\* a write `bitmap[y][x] = 1` whose index the bitmap does not have raises
\* IndexError: some point passes the width/height test but lies beyond the
\* rows or cells the bitmap really has
PlotRaises(bm, points, w, h) ==
    \E p \in points :
        /\ 0 <= p[1] /\ p[1] < w
        /\ 0 <= p[2] /\ p[2] < h
        /\ (p[2] >= Len(bm) \/ p[1] >= Len(bm[p[2] + 1]))

\* draw_graphic_circle that plots three axis points and the cell beside the fourth
draw_graphic_circle_AxesOnly(bm, cx, cy, radius, w, h) ==
    SetPixels(bm, IF radius < 0 THEN {}
                  ELSE {<<cx + radius, cy>>, <<cx - radius, cy>>,
                        <<cx, cy + radius>>, <<cx + 1, cy - radius>>}, w, h)

\* draw_graphic_circle that clears the centre cell
draw_graphic_circle_ClearsCentre(bm, cx, cy, radius, w, h) ==
    LET drawn == SetPixels(bm, CirclePoints(cx, cy, radius), w, h)
    IN [y1 \in 1..Len(drawn) |-> [x1 \in 1..Len(drawn[y1]) |->
            IF x1 - 1 = cx /\ y1 - 1 = cy /\ radius > 0 THEN 0 ELSE drawn[y1][x1]]]

\* draw_graphic_circle(bitmap, cx, cy, radius, width, height): the bitmap
\* it returns
draw_graphic_circle(bm, cx, cy, radius, w, h) ==
    SetPixels(bm, CirclePoints(cx, cy, radius), w, h)

\* draw_graphic_circle_filled whose spans on the rows +-x are left out
draw_graphic_circle_filled_NoCaps(bm, cx, cy, radius, w, h) ==
    SetPixels(bm, UNION {SpanPoints(cx, cy, s[2], s[1], s[1])
                         \cup SpanPoints(cx, cy, 0 - s[2], s[1], s[1]) :
                         s \in CircleSteps(radius, 0, 1 - radius)}, w, h)

\* draw_graphic_circle_filled(bitmap, cx, cy, radius, width, height)
draw_graphic_circle_filled(bm, cx, cy, radius, w, h) ==
    SetPixels(bm, DiskPoints(cx, cy, radius), w, h)

RECURSIVE DrawCirclesFrom(_, _, _, _, _)
\* the `for cx, cy, radius, filled in circles` loop from entry k on
DrawCirclesFrom(bm, circles, k, w, h) ==
    IF k > Len(circles) THEN bm
    ELSE LET c == circles[k]
         IN DrawCirclesFrom(IF ~c[4] THEN draw_graphic_circle(bm, c[1], c[2], c[3], w, h)
                            ELSE draw_graphic_circle_filled(bm, c[1], c[2], c[3], w, h),
                            circles, k + 1, w, h)

\* draw_graphic_circles that draws the outline of every entry, filled or not
draw_graphic_circles_AllOutlines(bm, circles, w, h) ==
    SetPixels(bm, UNION {CirclePoints(circles[k][1], circles[k][2], circles[k][3]) :
                         k \in 1..Len(circles)}, w, h)

\* draw_graphic_circles(bitmap, circles, width, height)
draw_graphic_circles(bm, circles, w, h) == DrawCirclesFrom(bm, circles, 1, w, h)

-----------------------------------------------------------------------------
(* The rasterizers on a caller's buffer: each call is given the buffer and *)
(* the buffer's own width and height; a small buffer is drawn on again and *)
(* again.                                                                  *)

\* sizes <<width, height>> of the buffers
ShapeCanvasSizes == {<<11, 11>>, <<3, 2>>}

\* widest buffer that is drawn on more than once
RedrawWidth == 3

\* centre coordinates: far outside, just outside, on the edge, inside
ShapeCentres == {0 - 30, 0 - 1, 0, 1, 5, 12}

\* radii: negative, zero, small, reaching the edge, larger than the buffer
ShapeRadii == {0 - 1, 0, 1, 2, 3, 4, 5, 20}

\* `circles` arguments: entries <<cx, cy, radius, filled>>
CircleLists ==
    {<<>>,
     <<(<<5, 5, 2, FALSE>>)>>,
     <<(<<5, 5, 2, TRUE>>)>>,
     <<(<<5, 5, 3, FALSE>>), (<<4, 6, 2, TRUE>>)>>,
     <<(<<4, 6, 2, TRUE>>), (<<5, 5, 3, FALSE>>)>>,
     <<(<<1, 1, 1, TRUE>>), (<<0, 0, 4, FALSE>>), (<<12, 5, 3, TRUE>>)>>,
     <<(<<1, 1, 0, FALSE>>), (<<1, 1, 0 - 1, TRUE>>)>>}

\* `lines` arguments
ShapeLineLists ==
    {<<(<<0, 0, 0, 5>>)>>,
     <<(<<5, 5, 45, 4>>)>>,
     <<(<<1, 1, 90, 3>>), (<<1, 1, 180, 3>>)>>,
     <<(<<12, 0 - 2, 225, 6>>)>>,
     <<(<<0 - 30, 40, 270, 100>>)>>}

\* the samples of all the lines of a `lines` argument
LinePoints(lines) ==
    UNION {{SamplePoint(lines[k][1], lines[k][2], lines[k][3], i) : i \in 0..(lines[k][4] - 1)} :
           k \in 1..Len(lines)}

\* the (px, py) the circles of a `circles` argument go over
CirclesPoints(circles) ==
    UNION {IF ~circles[k][4] THEN CirclePoints(circles[k][1], circles[k][2], circles[k][3])
           ELSE DiskPoints(circles[k][1], circles[k][2], circles[k][3]) :
           k \in 1..Len(circles)}

InitShapes ==
    /\ \E size \in ShapeCanvasSizes, pattern \in CanvasPatterns :
            bitmap = MakeBitmap(size[1], size[2], pattern, {})
    /\ before = bitmap
    /\ pc = "canvas"
    /\ packed = [raised |-> "none", out |-> <<>>]
    /\ call = NoCall
    /\ raised = "none"
    /\ frames = <<>>
    /\ wire = <<>>
    /\ width = 140
    /\ height = 32
    /\ windows = {}
    /\ NoDevice
    /\ NoBusyWait

\* the call op(bitmap, args, width, height) went over `points` and returned
\* `result`, or raised IndexError on the way
Drawn(op, args, points, result) ==
    /\ pc' = "drawn"
    /\ call' = [op |-> op, args |-> args, data |-> <<>>, clear |-> FALSE]
    /\ before' = bitmap
    /\ IF PlotRaises(bitmap, points, BitmapW, BitmapH)
       THEN raised' = "IndexError" /\ UNCHANGED bitmap
       ELSE raised' = "none" /\ bitmap' = result
    /\ UNCHANGED <<width, height, frames, wire, packed, windows, devvars, busyvars>>

Shape_lines ==
    \E lines \in ShapeLineLists :
        /\ pc = "canvas"
        /\ Drawn("draw_graphic_lines", lines, LinePoints(lines),
                 draw_graphic_lines(bitmap, lines, BitmapW, BitmapH))

Shape_circle ==
    \E cx \in ShapeCentres, cy \in ShapeCentres, radius \in ShapeRadii :
        /\ pc = "canvas"
        /\ Drawn("draw_graphic_circle", <<cx, cy, radius>>, CirclePoints(cx, cy, radius),
                 draw_graphic_circle(bitmap, cx, cy, radius, BitmapW, BitmapH))

Shape_circle_filled ==
    \E cx \in ShapeCentres, cy \in ShapeCentres, radius \in ShapeRadii :
        /\ pc = "canvas"
        /\ Drawn("draw_graphic_circle_filled", <<cx, cy, radius>>, DiskPoints(cx, cy, radius),
                 draw_graphic_circle_filled(bitmap, cx, cy, radius, BitmapW, BitmapH))

Shape_circles ==
    \E circles \in CircleLists :
        /\ pc = "canvas"
        /\ Drawn("draw_graphic_circles", circles, CirclesPoints(circles),
                 draw_graphic_circles(bitmap, circles, BitmapW, BitmapH))

\* the caller draws on the returned buffer again
Redraw ==
    /\ pc = "drawn"
    /\ raised = "none"
    /\ BitmapW <= RedrawWidth
    /\ pc' = "canvas"
    /\ call' = NoCall
    /\ before' = bitmap
    /\ UNCHANGED <<width, height, raised, frames, wire, bitmap, packed, windows, devvars, busyvars>>

NextShapes ==
    \/ Shape_lines
    \/ Shape_circle
    \/ Shape_circle_filled
    \/ Shape_circles
    \/ Redraw

SpecShapes == InitShapes /\ [][NextShapes]_vars

-----------------------------------------------------------------------------
(* Properties *)

\* the bytes a frame of items in 0..65535 takes on the wire
WireLength(frame) == Len(frame) + Cardinality({k \in 1..Len(frame) : frame[k] > 255})

\* byte r is byte b with its bit order reversed
IsBitReversal(r, b) == r \in 0..255 /\ \A j \in 0..7 : Bit(r, 7 - j) = Bit(b, j)

\* C1: a call that raises has written nothing to the transport, and every
\* frame sent went out whole, in one transport write of its own
C1_RaiseMeansNothingWritten ==
    pc = "done" =>
        /\ raised # "none" => wire = <<>>
        /\ Len(wire) = Len(frames)
        /\ \A i \in 1..Len(frames) : Len(wire[i]) = WireLength(frames[i])

\* a call raises in send_bytes after an item that was valid
C1_Witness ==
    /\ pc = "done"
    /\ call.op = "write_text"
    /\ call.data = <<65, 65536>>
    /\ raised = "ValueError"
    /\ wire = <<>>

InDomain(a) ==
    /\ a[1] \in 1..4
    /\ a[2] \in 0..279
    /\ a[3] \in 0..3
    /\ a[4] \in 1..280
    /\ a[5] \in 1..4

\* C2: define_user_window raises and transmits nothing whenever one of its
\* five values is outside its domain, and transmits a define frame only when
\* all five are inside
C2_DefineRejectsOutOfDomain ==
    (pc = "done" /\ call.op = "define_user_window") =>
        IF InDomain(call.args)
        THEN raised = "none" /\ Len(wire) = 1
        ELSE raised # "none" /\ wire = <<>>

\* the three conditions display_realtime_image states on its arguments
ImageArgsFit(data, w, h) ==
    /\ w \in 1..256
    /\ h \in 1..32
    /\ h % 8 = 0
    /\ Len(data) = w * (h \div 8)

\* C5, as stated: display_realtime_image raises and transmits nothing unless
\* its width, height and payload length fit, and never raises when they do
C5_RaisesIffArgsDoNotFit ==
    (pc = "done" /\ call.op = "display_realtime_image") =>
        IF ImageArgsFit(call.data, call.args[1], call.args[2])
        THEN raised = "none"
        ELSE raised # "none" /\ wire = <<>>

\* C5, amended: display_realtime_image raises and transmits nothing unless
\* its width, height and payload length fit; when they do, it raises (still
\* transmitting nothing) exactly if an item of image_data is outside 0..65535
C5_RaisesIffArgsOrItemsDoNotFit ==
    (pc = "done" /\ call.op = "display_realtime_image") =>
        IF /\ ImageArgsFit(call.data, call.args[1], call.args[2])
           /\ \A i \in 1..Len(call.data) : call.data[i] \in 0..65535
        THEN raised = "none" /\ Len(wire) = 1
        ELSE raised # "none" /\ wire = <<>>

\* a 256 x 32 image of 1024 bytes is accepted
C5_Witness ==
    /\ pc = "done"
    /\ call.op = "display_realtime_image"
    /\ call.args = <<256, 32>>
    /\ Len(call.data) = 1024
    /\ raised = "none"
    /\ Len(wire) = 1

\* C6: for valid arguments the frame display_realtime_image sends is the
\* nine bytes 0x1F 0x28 0x66 0x11, width low, width high, height/8 low,
\* height/8 high, 0x01, followed by image_data as given
C6_ImageFrame ==
    (pc = "done" /\ call.op = "display_realtime_image" /\ raised = "none") =>
        LET w == call.args[1]
            h == call.args[2]
        IN /\ Len(frames) = 1
           /\ Len(frames[1]) = 9 + (w * h) \div 8
           /\ SubSeq(frames[1], 1, 9) =
                <<31, 40, 102, 17, w % 256, w \div 256, (h \div 8) % 256, (h \div 8) \div 256, 1>>
           /\ SubSeq(frames[1], 10, Len(frames[1])) = call.data

\* a 256 wide image is sent, its width encoded as 0x00, 0x01
C6_Witness ==
    /\ pc = "done"
    /\ call.op = "display_realtime_image"
    /\ call.args = <<256, 16>>
    /\ raised = "none"
    /\ Len(frames) = 1
    /\ frames[1][5] = 0
    /\ frames[1][6] = 1
    /\ Len(frames[1]) = 521

\* the lookup table maps every byte to its bit reversal
ReverseTableReverses == \A b \in 0..255 : IsBitReversal(REVERSE_TABLE[b], b)

\* C8: a frame of items in 0..255 goes out as as many bytes, the i-th being
\* the bit reversal of the i-th item
C8_WireIsBitReversed ==
    /\ ReverseTableReverses
    /\ pc = "done" =>
         \A i \in 1..Len(frames) :
            (\A k \in 1..Len(frames[i]) : frames[i][k] \in 0..255) =>
                /\ Len(wire[i]) = Len(frames[i])
                /\ \A k \in 1..Len(frames[i]) : IsBitReversal(wire[i][k], frames[i][k])

\* set_luminance(1) puts 0xF8 0x1A 0x80 on the wire for 0x1F 0x58 0x01
C8_Witness ==
    /\ pc = "done"
    /\ call.op = "set_luminance"
    /\ frames = << <<31, 88, 1>> >>
    /\ wire = << <<248, 26, 128>> >>

\* C9: write_text puts exactly one byte per character on the wire, in
\* order: the bit reversal of the character's code point
C9_OneBytePerCharacter ==
    (pc = "done" /\ call.op = "write_text") =>
        /\ raised = "none"
        /\ Len(wire) = 1
        /\ Len(wire[1]) = Len(call.data)
        /\ \A i \in 1..Len(call.data) : IsBitReversal(wire[1][i], call.data[i])

DeleteFrame(n) == <<31, 40, 119, 2, n, 0>>

\* C10: delete_user_window(n, clear) with n in 1..4 sends select-window n,
\* clear, window-delete n, in this order, when clear is true, and the
\* window-delete frame alone when it is false
C10_ClearThenDelete ==
    (pc = "done" /\ call.op = "delete_user_window" /\ call.args[1] \in 1..4) =>
        /\ raised = "none"
        /\ frames = IF call.clear
                    THEN << <<31, 40, 119, 1, call.args[1]>>, <<12>>, DeleteFrame(call.args[1]) >>
                    ELSE << DeleteFrame(call.args[1]) >>
        /\ Len(wire) = Len(frames)

\* window 4 is cleared and deleted in three transport writes
C10_Witness ==
    /\ pc = "done"
    /\ call.op = "delete_user_window"
    /\ call.args = <<4>>
    /\ call.clear
    /\ Len(wire) = 3
    /\ frames[3] = DeleteFrame(4)

\* some item of the data is below 0 or above 65535
HasBadItem(data) == \E k \in 1..Len(data) : data[k] < 0 \/ data[k] > 65535

\* where the bytes of item k of a frame start in its transport write
WireOffset(frame, k) == (k - 1) + Cardinality({j \in 1..(k - 1) : frame[j] > 255})

\* the write is the frame item by item: one bit-reversed byte for an item up
\* to 255, else the bit-reversed low byte and then the bit-reversed high byte
IsLowFirstLayout(w, frame) ==
    /\ Len(w) = WireLength(frame)
    /\ \A k \in 1..Len(frame) :
        LET at == WireOffset(frame, k)
        IN  IF frame[k] <= 255
            THEN IsBitReversal(w[at + 1], frame[k])
            ELSE /\ IsBitReversal(w[at + 1], frame[k] % 256)
                 /\ IsBitReversal(w[at + 2], frame[k] \div 256)

\* C27: send_bytes takes items in 0..65535: an item in 256..65535 goes out
\* as two bytes, the bit-reversed low byte and then the bit-reversed high
\* byte; when an item is negative or above 65535 the call raises and writes
\* nothing, even after valid items of the same frame.
C27_SixteenBitItems ==
    pc = "done" =>
        /\ Len(wire) = Len(frames)
        /\ \A i \in 1..Len(frames) :
            /\ \A k \in 1..Len(frames[i]) : frames[i][k] \in 0..65535
            /\ IsLowFirstLayout(wire[i], frames[i])
        /\ call.op = "write_text" =>
            IF HasBadItem(call.data)
            THEN raised = "ValueError" /\ wire = <<>>
            ELSE raised = "none" /\ frames = <<call.data>>
        /\ (call.op = "display_realtime_image" /\ HasBadItem(call.data)) =>
            raised = "ValueError" /\ wire = <<>>

\* write_text of "A" and the euro sign U+20AC: 0x41 goes out as 0x82, 0x20AC
\* as 0x35 (0xAC reversed) and then 0x04 (0x20 reversed)
C27_Witness ==
    /\ pc = "done"
    /\ call.op = "write_text"
    /\ call.data = <<65, 8364>>
    /\ raised = "none"
    /\ wire = << <<130, 53, 4>> >>

-----------------------------------------------------------------------------
(* Properties of the packer, under SpecPack *)

\* the reference unpack: cell (x, y) is bit 7 - (y mod 8) of byte x * (h/8) + y div 8
Unpack(out, w, h) ==
    [y1 \in 1..h |-> [x1 \in 1..w |->
        Bit(out[(x1 - 1) * (h \div 8) + ((y1 - 1) \div 8) + 1], 7 - ((y1 - 1) % 8))]]

\* C3: for a height that is a multiple of 8, pack_bitmap returns w*h/8 bytes,
\* column after column and band after band, bit 7 - b of byte x*(h/8) + k
\* being bitmap[8k + b][x]; unpacking gives the bitmap back
C3_PackIsColumnMajor ==
    (pc # "bitmap" /\ BitmapH % 8 = 0) =>
        LET w == BitmapW
            h == BitmapH
        IN /\ packed.raised = "none"
           /\ Len(packed.out) = (w * h) \div 8
           /\ \A x \in 0..(w - 1), k \in 0..(h \div 8 - 1), b \in 0..7 :
                /\ packed.out[x * (h \div 8) + k + 1] \in 0..255
                /\ Bit(packed.out[x * (h \div 8) + k + 1], 7 - b) = bitmap[8 * k + b + 1][x + 1]
           /\ Unpack(packed.out, w, h) = bitmap

\* a 2 x 16 bitmap with the single pixel (x, y) = (1, 9) packs to 0, 0, 0, 0x40
C3_Witness ==
    /\ pc = "packed"
    /\ BitmapW = 2
    /\ BitmapH = 16
    /\ \A x \in 0..1, y \in 0..15 : bitmap[y + 1][x + 1] = B2I(x = 1 /\ y = 9)
    /\ packed.out = <<0, 0, 0, 64>>

\* C4: for a height that is no multiple of 8, pack_bitmap does not raise and
\* returns w * ceil(h/8) bytes, the bits of the missing rows being 0
C4_RaggedHeightPadsWithZeros ==
    (pc # "bitmap" /\ BitmapH % 8 # 0) =>
        LET w == BitmapW
            h == BitmapH
            bands == (h + 7) \div 8
        IN /\ packed.raised = "none"
           /\ Len(packed.out) = w * bands
           /\ \A x \in 0..(w - 1), b \in 0..7 :
                (8 * (bands - 1) + b >= h) => Bit(packed.out[x * bands + bands], 7 - b) = 0

\* C7: the bytes pack_bitmap returns for a bitmap 1..256 wide and 8, 16, 24
\* or 32 high pass display_realtime_image's length check and are sent as the
\* payload of one frame; a 16 x 8 bitmap of ones gives 16 bytes 0xFF
C7_PackedIsDisplayable ==
    /\ (pc = "packed" /\ BitmapW \in 1..256 /\ BitmapH \in {8, 16, 24, 32}) =>
            /\ packed.raised = "none"
            /\ ImageArgsFit(packed.out, BitmapW, BitmapH)
            /\ (BitmapW = 16 /\ BitmapH = 8 /\ bitmap = MakeBitmap(16, 8, "ones", {})) =>
                    packed.out = [i \in 1..16 |-> 255]
    /\ (pc = "done" /\ BitmapW \in 1..256 /\ BitmapH \in {8, 16, 24, 32}) =>
            /\ raised = "none"
            /\ Len(frames) = 1
            /\ Len(wire) = 1
            /\ SubSeq(frames[1], 10, Len(frames[1])) = packed.out

\* the packed 16 x 8 bitmap of ones has been sent: 9 + 16 bytes, the last 16 being 0xFF
C7_Witness ==
    /\ pc = "done"
    /\ bitmap = MakeBitmap(16, 8, "ones", {})
    /\ raised = "none"
    /\ Len(wire) = 1
    /\ Len(wire[1]) = 25
    /\ \A i \in 10..25 : wire[1][i] = 255


-----------------------------------------------------------------------------
(* Properties of the driver's commands, under Spec *)

\* C15: a define_base_window call with mode 0 records width 140 and height
\* 32, one with mode 1 records 256 and 32, and either transmits exactly
\* [0x1F, 0x28, 0x77, 0x10, mode]; a call with any other mode raises,
\* transmits nothing and leaves width and height as they were.  No other
\* step changes them, so they are those of the latest successful call.
C15_BaseWindowSize ==
    [][IF pc' = "done" /\ call'.op = "define_base_window"
       THEN IF call'.args[1] \in {0, 1}
            THEN /\ raised' = "none"
                 /\ width' = (IF call'.args[1] = 0 THEN 140 ELSE 256)
                 /\ height' = 32
                 /\ frames' = <<(<<31, 40, 119, 16, call'.args[1]>>)>>
                 /\ Len(wire') = 1
            ELSE /\ raised' = "ValueError"
                 /\ frames' = <<>>
                 /\ wire' = <<>>
                 /\ width' = width
                 /\ height' = height
       ELSE width' = width /\ height' = height]_vars

\* the extended base window has just been defined
C15_Witness ==
    /\ pc = "done"
    /\ call.op = "define_base_window"
    /\ call.args = <<1>>
    /\ raised = "none"
    /\ width = 256
    /\ height = 32
    /\ frames = <<(<<31, 40, 119, 16, 1>>)>>

\* the x values in 0..300 set_cursor_position accepts (with y = 0) on a driver
\* whose recorded width is w, i.e. after define_base_window(0) for 140 and
\* after define_base_window(1) for 256
AcceptedX(w) ==
    {x \in 0..300 : Ok(set_cursor_position([Fresh EXCEPT !.width = w, !.height = 32], x, 0))}

\* what a set_cursor_position call does apart from the choice of the x limit:
\* x = 300 and y outside 0..3 raise, a raise transmits nothing, and an
\* accepted call transmits [0x1F, 0x24, x lo, x hi, y lo, y hi]
CursorCallAsFramed ==
    LET x == call.args[1]
        y == call.args[2]
    IN /\ (x = 300 \/ y \notin 0..3) => raised = "ValueError"
       /\ raised # "none" => wire = <<>>
       /\ raised = "none" =>
            frames = <<(<<31, 36, x % 256, x \div 256, y % 256, y \div 256>>)>>

\* C16 as stated: the x range set_cursor_position accepts depends on the
\* base-window mode, the largest accepted x after define_base_window(0)
\* differing from the one after define_base_window(1); x = 300 and y outside
\* 0..3 are rejected in both modes and an accepted call transmits
\* [0x1F, 0x24, x lo, x hi, y lo, y hi].
C16_XRangeDependsOnMode ==
    (pc = "done" /\ call.op = "set_cursor_position") =>
        /\ AcceptedX(140) # AcceptedX(256)
        /\ CursorCallAsFramed

\* C16, amended: set_cursor_position accepts x in 0..255 and y in 0..3 in
\* both base-window modes and raises for every other value; an accepted
\* call transmits [0x1F, 0x24, x lo, x hi, y lo, y hi], a rejected one
\* nothing.
C16_XRangeIsFixed ==
    (pc = "done" /\ call.op = "set_cursor_position") =>
        /\ raised = "none" <=> (call.args[1] \in 0..255 /\ call.args[2] \in 0..3)
        /\ AcceptedX(140) = 0..255
        /\ AcceptedX(256) = 0..255
        /\ CursorCallAsFramed

\* with the extended base window recorded, x = 256 has just been refused
C16_Witness ==
    /\ pc = "done"
    /\ call.op = "set_cursor_position"
    /\ call.args = <<256, 0>>
    /\ width = 256
    /\ raised = "ValueError"

\* the range-validated setters
RangeSetters ==
    {"set_luminance", "set_cursor_blink", "set_write_logic", "set_reverse_display",
     "do_select_window", "set_horizontal_scroll_speed", "set_font_magnification",
     "do_blink_display"}

\* the documented domain <<lo, hi>> of each argument of a setter, in declared order
SetterDomains(op) ==
    CASE op = "set_luminance" -> <<(<<1, 8>>)>>
      [] op = "set_cursor_blink" -> <<(<<0, 1>>)>>
      [] op = "set_write_logic" -> <<(<<0, 3>>)>>
      [] op = "set_reverse_display" -> <<(<<0, 1>>)>>
      [] op = "do_select_window" -> <<(<<0, 4>>)>>
      [] op = "set_horizontal_scroll_speed" -> <<(<<0, 31>>)>>
      [] op = "set_font_magnification" -> <<(<<1, 4>>), (<<1, 4>>)>>
      [] op = "do_blink_display" -> <<(<<0, 2>>), (<<1, 255>>), (<<1, 255>>), (<<1, 255>>)>>

\* the opcode bytes a setter's frame starts with
SetterPrefix(op) ==
    CASE op = "set_luminance" -> <<31, 88>>
      [] op = "set_cursor_blink" -> <<31, 67>>
      [] op = "set_write_logic" -> <<31, 119>>
      [] op = "set_reverse_display" -> <<31, 114>>
      [] op = "do_select_window" -> <<31, 40, 119, 1>>
      [] op = "set_horizontal_scroll_speed" -> <<31, 115>>
      [] op = "set_font_magnification" -> <<31, 40, 103, 64>>
      [] op = "do_blink_display" -> <<31, 40, 97, 17>>

\* C17: each range-validated setter raises exactly when some argument is
\* outside its documented domain, transmitting nothing; otherwise it
\* transmits exactly one frame, its opcode prefix followed by the arguments
\* in declared order.
C17_SettersValidateAndFrame ==
    (pc = "done" /\ call.op \in RangeSetters) =>
        LET dom == SetterDomains(call.op)
            inDomain == \A k \in 1..Len(dom) :
                            dom[k][1] <= call.args[k] /\ call.args[k] <= dom[k][2]
        IN /\ Len(call.args) = Len(dom)
           /\ raised # "none" <=> ~inDomain
           /\ raised # "none" => (raised = "ValueError" /\ frames = <<>> /\ wire = <<>>)
           /\ raised = "none" =>
                (frames = <<SetterPrefix(call.op) \o call.args>> /\ Len(wire) = 1)

\* do_blink_display has just been accepted with every argument at an end of
\* its range
C17_Witness ==
    /\ pc = "done"
    /\ call.op = "do_blink_display"
    /\ call.args = <<2, 1, 255, 255>>
    /\ frames = <<(<<31, 40, 97, 17, 2, 1, 255, 255>>)>>

\* the character-code identifiers the driver documents: 0x00..0x05 and 0x10..0x13
DocumentedCharacterCodes == (0..5) \cup (16..19)

\* C18: set_character_code accepts every documented character-code
\* identifier, transmitting [0x1B, 0x74, code], and raises for every other
\* value.
C18_DocumentedCodesAccepted ==
    (pc = "done" /\ call.op = "set_character_code") =>
        /\ raised = "none" <=> call.args[1] \in DocumentedCharacterCodes
        /\ raised = "none" => frames = <<(<<27, 116, call.args[1]>>)>>

\* items k and k + 1 of frame f are the little-endian pair of v
IsLowHigh(f, k, v) ==
    /\ f[k] \in 0..255
    /\ f[k + 1] \in 0..255
    /\ f[k] = v % 256
    /\ f[k + 1] = v \div 256
    /\ f[k] + 256 * f[k + 1] = v

\* the one frame of the call has n items, all bytes, and starts with `prefix`
OneFrameOf(n, prefix) ==
    /\ raised = "none"
    /\ Len(frames) = 1
    /\ Len(frames[1]) = n
    /\ \A k \in 1..n : frames[1][k] \in 0..255
    /\ SubSeq(frames[1], 1, Len(prefix)) = prefix

\* C19: every multi-byte parameter v of set_cursor_position,
\* define_user_window and do_display_scroll is framed low byte first,
\* (v mod 256, v div 256), so that lo + 256 * hi = v for every valid v, in
\* the layouts [0x1F, 0x24, x, y], [0x1F, 0x28, 0x77, 0x02, window_num, 0x01,
\* x, y, w, h] and [0x1F, 0x28, 0x61, 0x10, shift, count, speed]; every item
\* of these frames is a byte.
C19_LittleEndianPairs ==
    LET a == call.args
    IN /\ (pc = "done" /\ call.op = "set_cursor_position" /\ a[1] \in 0..255 /\ a[2] \in 0..3)
            => /\ OneFrameOf(6, <<31, 36>>)
               /\ IsLowHigh(frames[1], 3, a[1])
               /\ IsLowHigh(frames[1], 5, a[2])
       /\ (pc = "done" /\ call.op = "define_user_window" /\ InDomain(a))
            => /\ OneFrameOf(14, <<31, 40, 119, 2, a[1], 1>>)
               /\ IsLowHigh(frames[1], 7, a[2])
               /\ IsLowHigh(frames[1], 9, a[3])
               /\ IsLowHigh(frames[1], 11, a[4])
               /\ IsLowHigh(frames[1], 13, a[5])
       /\ (pc = "done" /\ call.op = "do_display_scroll"
              /\ a[1] \in 0..1023 /\ a[2] \in 1..65535 /\ a[3] \in 0..255)
            => /\ OneFrameOf(9, <<31, 40, 97, 16>>)
               /\ IsLowHigh(frames[1], 5, a[1])
               /\ IsLowHigh(frames[1], 7, a[2])
               /\ frames[1][9] = a[3]

\* a scroll with the largest shift, count and speed has been framed
C19_Witness ==
    /\ pc = "done"
    /\ call.op = "do_display_scroll"
    /\ call.args = <<1023, 65535, 255>>
    /\ frames = <<(<<31, 40, 97, 16, 255, 3, 255, 255, 255>>)>>

-----------------------------------------------------------------------------
(* Properties of the window commands, under SpecWindows *)

\* C11: whatever window calls were made, with whatever arguments, every
\* transmitted frame that defines or deletes a user window names a window in
\* 1..4 and every frame that selects a window names one in 0..4; so the user
\* windows the display holds are among 1, 2, 3, 4, and
\* define_user_window(5, ...) raises without transmitting.
C11_WindowNumbersInRange ==
    /\ \A k \in 1..Len(frames) :
        /\ IsUserWindowFrame(frames[k]) => frames[k][5] \in 1..4
        /\ IsSelectFrame(frames[k]) => frames[k][5] \in 0..4
    /\ windows \subseteq 1..4
    /\ (pc = "done" /\ call.op = "define_user_window" /\ call.args[1] = 5)
        => (raised = "ValueError" /\ wire = <<>>)

\* all four user windows are defined and a fifth has just been refused
C11_Witness ==
    /\ windows = 1..4
    /\ pc = "done"
    /\ call.op = "define_user_window"
    /\ call.args[1] = 5
    /\ raised = "ValueError"



\* the window numbers of the select frames among the frames, in order
SelectedBy(fs) ==
    LET at == {i \in 1..Len(fs) : IsSelectFrame(fs[i])}
    IN [j \in 1..Cardinality(at) |->
            fs[CHOOSE i \in at : Cardinality({h \in at : h <= i}) = j][5]]

\* C28: clear_window changes the display's current window and does not
\* restore it: after clear_window(n), n in 0..4, the last select frame sent
\* names window n, and the display's current window is n; after
\* delete_user_window(n, clear=True) the display's current window is the
\* deleted window n, and no select frame for window 0 follows.
C28_ClearLeavesWindowSelected ==
    /\ (pc = "done" /\ call.op = "clear_window" /\ call.args[1] \in 0..4) =>
            /\ raised = "none"
            /\ SelectedBy(frames) = <<call.args[1]>>
            /\ device.window = call.args[1]
    /\ (pc = "done" /\ call.op = "delete_user_window" /\ call.args[1] \in 1..4 /\ call.clear) =>
            /\ raised = "none"
            /\ SelectedBy(frames) = <<call.args[1]>>
            /\ device.window = call.args[1]
    /\ pc = "idle" => device.window \in 0..4

\* window 3 has been cleared and deleted, in three frames that select it,
\* clear it and delete it: the display is left with window 3 current
C28_Witness ==
    /\ pc = "done"
    /\ call.op = "delete_user_window"
    /\ call.args = <<3>>
    /\ call.clear
    /\ frames = << <<31, 40, 119, 1, 3>>, <<12>>, <<31, 40, 119, 2, 3, 0>> >>
    /\ device.window = 3

-----------------------------------------------------------------------------
(* Properties of send_bytes and its busy wait, under SpecSend *)

\* the send_bytes call has returned normally
SendReturned == pc = "Idle" /\ call.op = "send_bytes" /\ raised = "none"

\* the call is to wait for the display: wait_busy is set and there is a pin
SendWaits == call.args[1] /\ pin_sbusy # "None"

IsPrefix(s, t) == Len(s) <= Len(t) /\ s = SubSeq(t, 1, Len(s))

\* C12: a successful send_bytes call goes Idle -> Sending -> WaitingBusy ->
\* Idle; the whole frame is written by exactly one transport write; the
\* SBUSY pin is read only after that write has completed; and WaitingBusy is
\* skipped, the pin never read, when there is no SBUSY pin or wait_busy is
\* False.
C12_SendPhases ==
    /\ Len(wire) <= 1
    /\ polled # <<>> => (Len(wire) = 1 /\ SendWaits)
    /\ pc = "WaitingBusy" => (Len(wire) = 1 /\ SendWaits)
    /\ \/ IsPrefix(phases, <<"Idle", "Sending", "WaitingBusy", "Idle">>)
       \/ IsPrefix(phases, <<"Idle", "Sending", "Idle">>)
    /\ SendReturned =>
        /\ frames = <<call.data>>
        /\ wire = <<Encode(call.data)>>
        /\ phases = IF SendWaits THEN <<"Idle", "Sending", "WaitingBusy", "Idle">>
                    ELSE <<"Idle", "Sending", "Idle">>
        /\ SendWaits <=> polled # <<>>

\* a call with wait_busy=False on a driver with a pin has returned
C12_Witness ==
    /\ SendReturned
    /\ call.args[1] = FALSE
    /\ pin_sbusy = "Pin"
    /\ call.data = <<31, 88, 256>>
    /\ phases = <<"Idle", "Sending", "Idle">>

\* C13: the busy wait ends.  A pin that is found high at every poll ends it
\* with the warning once more than timeout_us (10000) microseconds have
\* passed, and not before; a pin found low ends it at that poll without the
\* warning; either way nothing is raised and send_bytes returns with the
\* frame written.
C13_State ==
    /\ (pc = "WaitingBusy" /\ wpc = "sleep") => elapsed <= timeout_us
    /\ pc = "WaitingBusy" => ~warned
    /\ warned => (SendReturned /\ polled = <<1>> /\ elapsed > timeout_us)
    /\ polled = <<0>> => (SendReturned /\ ~warned)
    /\ (pc = "Idle" /\ polled = <<1>>) => warned
    /\ (pc = "Idle" /\ polled # <<>>) => (raised = "none" /\ wire = <<Encode(call.data)>>)
    /\ timeout_us = 10000

C13_BusyWaitTerminates ==
    /\ []C13_State
    /\ (pc = "WaitingBusy") ~> SendReturned

\* the wait has ended by the timeout, with the warning
C13_Witness ==
    /\ SendReturned
    /\ warned
    /\ elapsed = timeout_us + 10
    /\ wire = <<Encode(<<27, 64>>)>>


-----------------------------------------------------------------------------
(* Properties of construction, under SpecNew *)

\* the construction arguments <<luminance, cursor_blink, mode, base_window_mode>>
\* are all valid; the mode is taken whatever its case, as mode.upper() takes it
ValidInitArgs(a) ==
    /\ a[1] \in 1..8
    /\ a[2] = <<>> \/ a[2][1] \in {0, 1}
    /\ a[3] = <<>> \/ Upper(a[3][1]) \in {"MD1", "MD2", "MD3"}
    /\ a[4] \in {0, 1}

\* C14: constructing the driver with an invalid luminance, cursor_blink,
\* mode or base_window_mode raises a parameter error before any byte has
\* been written to the transport.
C14_InvalidInitWritesNothing ==
    (/\ pc = "done" /\ call.op = "__init__" /\ ~ValidInitArgs(call.args)
     /\ call.args[5] # "None" /\ call.args[6] # "None")
        => (raised = "ValueError" /\ wire = <<>>)


\* the object was constructed: __init__ has returned without raising
Constructed == pc = "done" /\ call.op = "__init__" /\ raised = "none"

\* C25: constructed with reset=None and sbusy=None, the driver has no pin
\* handles: no pin object is created for them, reset_display pulses nothing,
\* and no send_bytes reads or waits on the ready signal.
C25_NoPinsWhenNone ==
    (pc = "done" /\ call.op = "__init__" /\ call.args[5] = "None" /\ call.args[6] = "None"
     /\ ValidInitArgs(call.args)) =>
        /\ raised = "none"
        /\ pin_reset = "None"
        /\ pin_sbusy = "None"
        /\ \A i \in 1..Len(events) : events[i][1] = "write"

\* the reset line's pulse with its two delays
ResetPulse ==
    << <<"reset", 1>>, <<"reset", 0>>, <<"sleep_ms", 100>>, <<"reset", 1>>, <<"sleep_ms", 100>> >>

\* the frames construction sends for valid arguments
InitFrames(a) ==
    << <<27, 64>>, <<31, 88, a[1]>> >>
    \o (IF a[2] = <<>> THEN <<>> ELSE << <<31, 67, a[2][1]>> >>)
    \o (IF a[3] = <<>> THEN <<>>
        ELSE << <<31, CASE Upper(a[3][1]) = "MD1" -> 1
                        [] Upper(a[3][1]) = "MD2" -> 2
                        [] OTHER -> 3>> >>)

\* the writes among the events, in order
Writes(ev) ==
    LET at == {i \in 1..Len(ev) : ev[i][1] = "write"}
    IN [j \in 1..Cardinality(at) |->
            ev[CHOOSE i \in at : Cardinality({h \in at : h <= i}) = j][2]]

\* C26: construction with valid parameters goes in this order: reset line
\* high, low, 100 ms, high, 100 ms, and only then the transmissions:
\* [0x1B, 0x40], [0x1F, 0x58, luminance], the cursor-blink frame if
\* cursor_blink was given, the mode frame [0x1F, 0x01], [0x1F, 0x02] or
\* [0x1F, 0x03] if mode was given.
C26_ConstructionOrder ==
    (pc = "done" /\ call.op = "__init__" /\ ValidInitArgs(call.args)) =>
        /\ (call.args[5] # "None" /\ call.args[6] # "None") => raised = "none"
        /\ raised = "none" =>
            /\ Len(events) >= 5
            /\ SubSeq(events, 1, 5) = ResetPulse
            /\ \A i \in 6..Len(events) : events[i][1] \in {"write", "wait_sbusy"}
            /\ Writes(events) = InitFrames(call.args)
            /\ frames = InitFrames(call.args)

\* constructed with pins, luminance 8, cursor_blink 1 and mode "md2": the
\* pulse, then four frames, each followed by the wait for SBUSY
C26_Witness ==
    /\ Constructed
    /\ call.args = <<8, <<1>>, <<"md2">>, 0, "int", "Pin">>
    /\ events = ResetPulse \o
                << <<"write", <<27, 64>>>>, <<"wait_sbusy">>,
                   <<"write", <<31, 88, 8>>>>, <<"wait_sbusy">>,
                   <<"write", <<31, 67, 1>>>>, <<"wait_sbusy">>,
                   <<"write", <<31, 2>>>>, <<"wait_sbusy">> >>

-----------------------------------------------------------------------------
(* Properties of construction and define_base_window, under SpecBase *)

\* C29: the driver's width agrees with the base window mode the display
\* was last told: with the display in mode 0 from the initialization frame
\* until a base-window-mode frame is sent, after construction (with either
\* base_window_mode) and any define_base_window calls, width is 256 exactly
\* when the last base-window-mode frame sent had mode 1, and 140 otherwise.
C29_WidthAgreesWithDisplay ==
    (Constructed \/ pc = "idle" \/ (pc = "done" /\ call.op = "define_base_window")) =>
        width = IF device.mode = 1 THEN 256 ELSE 140


-----------------------------------------------------------------------------
(* Properties of the drawing functions, under SpecDraw *)

\* the cells <<x, y>> of the buffer, and those the call changed
Cells == (0..(BitmapW - 1)) \X (0..(BitmapH - 1))

Changed == {c \in Cells : bitmap[c[2] + 1][c[1] + 1] # before[c[2] + 1][c[1] + 1]}

Abs(n) == IF n < 0 THEN 0 - n ELSE n

\* C20: draw_graphic_lines writes only in-canvas sample points of its lines,
\* for i = 0..length-1: a line of length 0 or less leaves the buffer
\* unchanged whatever its angle, and a line of angle 0 sets exactly the cells
\* (x0 + i, y0), 0 <= i < length, that lie in the canvas and no others; so
\* (0, 0, 0, 5) on a 10 x 10 buffer of zeros sets exactly (0,0)..(4,0).
C20_LinesSetOnlySamplePoints ==
    (pc = "drawn" /\ call.op = "draw_graphic_lines") =>
        LET lines == call.args
        IN /\ Len(bitmap) = Len(before)
           /\ \A c \in Changed :
                /\ bitmap[c[2] + 1][c[1] + 1] = 1
                /\ \E k \in 1..Len(lines) :
                     /\ Abs(c[1] - lines[k][1]) <= lines[k][4] - 1
                     /\ Abs(c[2] - lines[k][2]) <= lines[k][4] - 1
           /\ (\A k \in 1..Len(lines) : lines[k][4] <= 0) => bitmap = before
           /\ (Len(lines) = 1 /\ lines[1][3] = 0) =>
                \A c \in Cells :
                    bitmap[c[2] + 1][c[1] + 1] =
                        IF /\ c[2] = lines[1][2]
                           /\ lines[1][1] <= c[1]
                           /\ c[1] < lines[1][1] + lines[1][4]
                        THEN 1 ELSE before[c[2] + 1][c[1] + 1]
           /\ (lines = <<(<<0, 0, 0, 5>>)>> /\ before = MakeBitmap(10, 10, "zeros", {}))
                => {c \in Cells : bitmap[c[2] + 1][c[1] + 1] = 1} = (0..4) \X {0}

\* the line (0, 0, 0, 5) has been drawn on the 10 x 10 buffer of zeros
C20_Witness ==
    /\ pc = "drawn"
    /\ call.args = <<(<<0, 0, 0, 5>>)>>
    /\ before = MakeBitmap(10, 10, "zeros", {})
    /\ Changed = (0..4) \X {0}


-----------------------------------------------------------------------------
(* Properties of the rasterizers, under SpecShapes *)

\* the cell <<x, y>> of a buffer
CellOf(bm, c) == bm[c[2] + 1][c[1] + 1]

\* the buffer has the rows and cells it had before the call
SameShape == Len(bitmap) = Len(before) /\ \A y1 \in 1..Len(bitmap) : Len(bitmap[y1]) = Len(before[y1])

\* C21: drawing only ever sets pixels: through any sequence of
\* draw_graphic_lines, draw_graphic_circle, draw_graphic_circle_filled and
\* draw_graphic_circles calls on one buffer, a pixel that is 1 before a call
\* is 1 after it, no call writes a 0, and every cell stays 0 or 1.
C21_DrawingIsMonotone ==
    /\ SameShape
    /\ \A c \in Cells :
        /\ CellOf(bitmap, c) \in {0, 1}
        /\ CellOf(before, c) = 1 => CellOf(bitmap, c) = 1
        /\ CellOf(bitmap, c) # CellOf(before, c) => CellOf(bitmap, c) = 1

\* a circle has been drawn over a buffer that already had pixels set, and
\* has set more
C21_Witness ==
    /\ pc = "drawn"
    /\ call.op = "draw_graphic_circle"
    /\ call.args = <<5, 5, 3>>
    /\ before = MakeBitmap(11, 11, "checker", {})
    /\ Changed # {}


\* the points a call's plotting went over
CallPoints ==
    CASE call.op = "draw_graphic_lines" -> LinePoints(call.args)
      [] call.op = "draw_graphic_circle" -> CirclePoints(call.args[1], call.args[2], call.args[3])
      [] call.op = "draw_graphic_circle_filled" -> DiskPoints(call.args[1], call.args[2], call.args[3])
      [] call.op = "draw_graphic_circles" -> CirclesPoints(call.args)
      [] OTHER -> {}

\* C22: the rasterizers clip silently: on a buffer of height x width cells,
\* given that width and height, no line, circle or filled-circle call raises,
\* whatever its start or centre, length or radius, and the cells it writes
\* are the points of its shape that lie in 0 <= x < width, 0 <= y < height;
\* the buffer keeps its rows and cells.
C22_ShapesClipSilently ==
    pc = "drawn" =>
        /\ raised = "none"
        /\ SameShape
        /\ Changed \subseteq CallPoints

\* a filled circle that reaches over the right and the top edge has been
\* drawn, and has set the part of it that lies on the buffer
C22_Witness ==
    /\ pc = "drawn"
    /\ call.op = "draw_graphic_circle_filled"
    /\ call.args = <<12, 0 - 1, 3>>
    /\ raised = "none"
    /\ Changed # {}
    /\ ~(CallPoints \subseteq Cells)


\* the cells a call has set
SetCells == {c \in Cells : CellOf(bitmap, c) = 1}

\* the buffer before the call was all zeros
WasZero == \A y1 \in 1..Len(before) : \A x1 \in 1..Len(before[y1]) : before[y1][x1] = 0

\* C23: on a zero buffer, the pixels draw_graphic_circle sets are symmetric
\* under x -> 2cx - x and under y -> 2cy - y, for any centre and any radius
\* >= 0: when a pixel is set and its mirror image lies on the canvas, the
\* mirror image is set; radius 0 sets the single pixel (cx, cy).
C23_CircleIsSymmetric ==
    (pc = "drawn" /\ call.op = "draw_graphic_circle" /\ WasZero /\ call.args[3] >= 0) =>
        LET cx == call.args[1]
            cy == call.args[2]
        IN  /\ \A c \in SetCells :
                /\ <<2 * cx - c[1], c[2]>> \in Cells => <<2 * cx - c[1], c[2]>> \in SetCells
                /\ <<c[1], 2 * cy - c[2]>> \in Cells => <<c[1], 2 * cy - c[2]>> \in SetCells
                /\ <<2 * cx - c[1], 2 * cy - c[2]>> \in Cells =>
                        <<2 * cx - c[1], 2 * cy - c[2]>> \in SetCells
            /\ call.args[3] = 0 => SetCells = {<<cx, cy>>} \cap Cells

\* a circle of radius 4 around (5, 5) has been drawn on a zero buffer: its
\* octant point (5+4, 5+1) and the three mirror images of it are set
C23_Witness ==
    /\ pc = "drawn"
    /\ call.op = "draw_graphic_circle"
    /\ call.args = <<5, 5, 4>>
    /\ WasZero
    /\ {<<9, 6>>, <<1, 6>>, <<9, 4>>, <<1, 4>>} \subseteq SetCells


\* the x of the set cells of row y
RowRun(y) == {c[1] : c \in {s \in SetCells : s[2] = y}}

\* the disk of radius r around (cx, cy) lies on the canvas
DiskInside(cx, cy, r) ==
    /\ r >= 0
    /\ 0 <= cx - r /\ cx + r < BitmapW
    /\ 0 <= cy - r /\ cy + r < BitmapH

\* C24: on a zero buffer, for a radius r >= 0 whose disk lies on the canvas,
\* draw_graphic_circle_filled sets a disk without holes and with nothing
\* beyond radius r + 0.5: every row cy+dy with |dy| <= r holds one unbroken
\* run of set pixels centred on cx, the other rows hold none, and every set
\* pixel (cx+dx, cy+dy) has dx*dx + dy*dy <= r*r + r.
C24_FilledDisk ==
    (/\ pc = "drawn" /\ call.op = "draw_graphic_circle_filled" /\ WasZero
     /\ DiskInside(call.args[1], call.args[2], call.args[3])) =>
        LET cx == call.args[1]
            cy == call.args[2]
            r == call.args[3]
        IN  /\ \A y \in 0..(BitmapH - 1) :
                IF Abs(y - cy) <= r
                THEN \E half \in 0..r : RowRun(y) = (cx - half)..(cx + half)
                ELSE RowRun(y) = {}
            /\ \A c \in SetCells :
                (c[1] - cx) * (c[1] - cx) + (c[2] - cy) * (c[2] - cy) <= r * r + r

\* the disk of radius 2 around (5, 5) on a zero 11x11 buffer: rows 3 and 7
\* hold x = 4..6, rows 4 to 6 hold x = 3..7
C24_Witness ==
    /\ pc = "drawn"
    /\ call.op = "draw_graphic_circle_filled"
    /\ call.args = <<5, 5, 2>>
    /\ WasZero
    /\ BitmapW = 11 /\ BitmapH = 11
    /\ RowRun(3) = 4..6 /\ RowRun(7) = 4..6
    /\ RowRun(4) = 3..7 /\ RowRun(5) = 3..7 /\ RowRun(6) = 3..7


\* the cells of a buffer that are 1
OnesOf(bm) == {c \in Cells : CellOf(bm, c) = 1}

\* a sequence back to front
Reversed(s) == [k \in 1..Len(s) |-> s[Len(s) + 1 - k]]

\* what one entry <<cx, cy, radius, filled>> draws on the buffer as it was
\* before the call: the outline when the flag is false, the disk when true
EntryDrawn(c) ==
    IF c[4] = FALSE THEN draw_graphic_circle(before, c[1], c[2], c[3], BitmapW, BitmapH)
    ELSE draw_graphic_circle_filled(before, c[1], c[2], c[3], BitmapW, BitmapH)

\* C30: every pixel draw_graphic_circle sets is set by
\* draw_graphic_circle_filled with the same arguments on an equal starting
\* buffer, and draw_graphic_circles draws the outline of each entry whose
\* filled flag is false and the disk of each whose flag is true, with a
\* result that does not depend on the order of the entries.
C30_OutlineWithinDisk ==
    /\ (pc = "drawn" /\ call.op = "draw_graphic_circle") =>
            OnesOf(bitmap) \subseteq
                OnesOf(draw_graphic_circle_filled(before, call.args[1], call.args[2],
                                                  call.args[3], BitmapW, BitmapH))
    /\ (pc = "drawn" /\ call.op = "draw_graphic_circle_filled") =>
            OnesOf(draw_graphic_circle(before, call.args[1], call.args[2],
                                       call.args[3], BitmapW, BitmapH))
                \subseteq OnesOf(bitmap)
    /\ (pc = "drawn" /\ call.op = "draw_graphic_circles") =>
            /\ OnesOf(bitmap) =
                    OnesOf(before) \cup
                    UNION {OnesOf(EntryDrawn(call.args[k])) : k \in 1..Len(call.args)}
            /\ bitmap = draw_graphic_circles(before, Reversed(call.args), BitmapW, BitmapH)

\* an outline and a disk that overlap have been drawn by one
\* draw_graphic_circles call: (8, 5) is on the outline only, (4, 6) in the
\* disk only
C30_Witness ==
    /\ pc = "drawn"
    /\ call.op = "draw_graphic_circles"
    /\ call.args = <<(<<5, 5, 3, FALSE>>), (<<4, 6, 2, TRUE>>)>>
    /\ WasZero
    /\ <<8, 5>> \in SetCells
    /\ <<4, 6>> \in SetCells
    /\ <<5, 5>> \in SetCells
    /\ <<7, 5>> \notin SetCells

====
